---- MODULE Spec2Model ----
(***************************************************************************)
(* Model of the PMIx client fence (collective coordinator + reply          *)
(* ingestion) of src/include/pmix_deprecated.h, lines 379-599:             *)
(* PMIx_Fence, PMIx_Fence_nb, pack_fence, unpack_return, wait_cbfunc and   *)
(* op_cbfunc.                                                              *)
(***************************************************************************)
EXTENDS Integers, Sequences, FiniteSets, TLC

VARIABLES
    init_cntr,   \* pmix_client_globals.init_cntr
    nspace,      \* pmix_globals.nspace (the caller's own namespace)
    reqs,        \* the pmix_cb_t objects PMIx_Fence_nb created, by creation order
    sent,        \* what PMIX_ACTIVATE_SEND_RECV handed to the transport, with the call's arguments
    last,        \* the last PMIx_Fence_nb / PMIx_Fence call: arguments and return
    store,       \* the client hash store filled by pmix_client_hash_store
    prog,        \* the progress context: position in wait_cbfunc
    fired,       \* the completion callbacks invoked so far, in order
    delivered,   \* the replies delivered to wait_cbfunc so far, in order
    thr,         \* each caller thread's position in PMIx_Fence
    wobj,        \* each caller thread's wait object (the cb of PMIx_Fence)
    gds,         \* the shmem store: job registry, build, fallback store, last fetch
    dir          \* a directory tree and the pmix_os_dirpath_destroy call at work on it

vars == <<init_cntr, nspace, reqs, sent, last, store, prog, fired, delivered, thr, wobj, gds,
          dir>>

----------------------------------------------------------------------------
(* Bounds of the model *)

\* total number of PMIx_Fence_nb / PMIx_Fence calls in one behaviour
MaxCalls == 2
\* number of fences of the ingestion specification
MaxIngests == 1
\* longest proc array a caller passes
MaxProcs == 1
\* most blobs in one reply, most items in one blob
MaxBlobs == 2
MaxItems == 2
\* ranks of a job, and most qualifiers of one fetch
MaxRanks == 2
MaxQuals == 2
\* The removals by another process during one pmix_os_dirpath_destroy.
MaxOthers == 1

----------------------------------------------------------------------------
(* Program constants *)

PMIX_SUCCESS == "PMIX_SUCCESS"
PMIX_ERR_INIT == "PMIX_ERR_INIT"
PMIX_ERR_BAD_PARAM == "PMIX_ERR_BAD_PARAM"
PMIX_ERR_OUT_OF_RESOURCE == "PMIX_ERR_OUT_OF_RESOURCE"
PMIX_ERR_UNPACK_FAILURE == "PMIX_ERR_UNPACK_FAILURE"
PMIX_ERR_UNPACK_READ_PAST_END_OF_BUFFER == "PMIX_ERR_UNPACK_READ_PAST_END_OF_BUFFER"
PMIX_FENCENB_CMD == "PMIX_FENCENB_CMD"
PMIX_RANK_WILDCARD == -1
PMIX_MAX_NSLEN == 255

NULL == "NULL"

\* A proc array argument: the NULL pointer, or a pointer to the array arr.
NullProcs == [null |-> TRUE, arr |-> <<>>]
ProcArray(arr) == [null |-> FALSE, arr |-> arr]

----------------------------------------------------------------------------
(* Namespaces and the request encoding *)

\* A namespace string: its text and its length in characters.
Min(a, b) == IF a < b THEN a ELSE b

NsShort == [id |-> "nsA", len |-> 3]
NsOther == [id |-> "nsB", len |-> 3]
NsLong  == [id |-> "nsL", len |-> PMIX_MAX_NSLEN]
OwnNamespaces == {NsShort, NsLong}

\* A char array field holding a namespace: nul says whether a terminating
\* NUL lies inside the part of the array that was written.
Field(ns) == [id |-> ns.id, len |-> ns.len, nul |-> TRUE]

\* strncpy(dst, src, n) into an uninitialised dst: min(len, n) characters are
\* copied and the rest of the n bytes is zero filled; when src has n or more
\* characters no NUL is written at all.
Strncpy(src, n) == [id |-> src.id, len |-> Min(src.len, n), nul |-> src.len < n]

\* The bytes the string packer reads from a field: up to the first NUL.  With
\* no NUL written it reads on into memory that was never initialised; g says
\* whether the next byte happened to be non-zero.
PackString(f, g) == [id |-> f.id, len |-> f.len, over |-> (~f.nul) /\ g]

PackProc(p, g) == [t |-> "PROC", v |-> [nspace |-> PackString(p.nspace, g), rank |-> p.rank]]

RECURSIVE PackProcs(_, _, _)
PackProcs(procs, n, g) ==
    IF n = 0 THEN <<>>
    ELSE Append(PackProcs(procs, n - 1, g), PackProc(procs[n], g))

\* Variant: the procs are packed before their number.
pack_fence_ProcsFirst(cmd, procs, nprocs, collect_data, pfail, g) ==
    IF pfail # 0 THEN [rc |-> PMIX_ERR_OUT_OF_RESOURCE, msg |-> <<>>]
    ELSE [rc |-> PMIX_SUCCESS,
          msg |-> (<<[t |-> "CMD", v |-> cmd]>> \o PackProcs(procs, nprocs, g))
                  \o <<[t |-> "SIZE", v |-> nprocs], [t |-> "INT", v |-> collect_data]>>]

\* pack_fence: pfail is the pack step the codec fails at (0: none).
pack_fence(cmd, procs, nprocs, collect_data, pfail, g) ==
    IF pfail = 1 THEN [rc |-> PMIX_ERR_OUT_OF_RESOURCE, msg |-> <<>>]
    ELSE LET m1 == <<[t |-> "CMD", v |-> cmd]>> IN
    IF pfail = 2 THEN [rc |-> PMIX_ERR_OUT_OF_RESOURCE, msg |-> m1]
    ELSE LET m2 == Append(m1, [t |-> "SIZE", v |-> nprocs]) IN
    IF pfail = 3 THEN [rc |-> PMIX_ERR_OUT_OF_RESOURCE, msg |-> m2]
    ELSE LET m3 == m2 \o PackProcs(procs, nprocs, g) IN
    IF pfail = 4 THEN [rc |-> PMIX_ERR_OUT_OF_RESOURCE, msg |-> m3]
    ELSE [rc |-> PMIX_SUCCESS, msg |-> Append(m3, [t |-> "INT", v |-> collect_data])]

\* Variant: the arguments are checked before the initialisation count.
FenceNbResult_ParamFirst(ic, own, procs, nprocs, collect_data, pfail, g) ==
    IF procs = NullProcs /\ nprocs # 0
    THEN [rc |-> PMIX_ERR_BAD_PARAM, post |-> FALSE, msg |-> <<>>]
    ELSE IF ic <= 0 THEN [rc |-> PMIX_ERR_INIT, post |-> FALSE, msg |-> <<>>]
    ELSE LET rgs == IF procs = NullProcs
                    THEN <<[nspace |-> Strncpy(own, PMIX_MAX_NSLEN), rank |-> PMIX_RANK_WILDCARD]>>
                    ELSE procs.arr
             nrg == IF procs = NullProcs THEN 1 ELSE nprocs
             pk  == pack_fence(PMIX_FENCENB_CMD, rgs, nrg, collect_data, pfail, g)
         IN IF pk.rc # PMIX_SUCCESS
            THEN [rc |-> pk.rc, post |-> FALSE, msg |-> <<>>]
            ELSE [rc |-> PMIX_SUCCESS, post |-> TRUE, msg |-> pk.msg]

\* The body of PMIx_Fence_nb up to its return value: rc, whether a request was
\* posted, and the message posted.
FenceNbResult(ic, own, procs, nprocs, collect_data, pfail, g) ==
    IF ic <= 0 THEN [rc |-> PMIX_ERR_INIT, post |-> FALSE, msg |-> <<>>]
    ELSE IF procs = NullProcs /\ nprocs # 0
         THEN [rc |-> PMIX_ERR_BAD_PARAM, post |-> FALSE, msg |-> <<>>]
    ELSE LET rgs == IF procs = NullProcs
                    THEN <<[nspace |-> Strncpy(own, PMIX_MAX_NSLEN), rank |-> PMIX_RANK_WILDCARD]>>
                    ELSE procs.arr
             nrg == IF procs = NullProcs THEN 1 ELSE nprocs
             pk  == pack_fence(PMIX_FENCENB_CMD, rgs, nrg, collect_data, pfail, g)
         IN IF pk.rc # PMIX_SUCCESS
            THEN [rc |-> pk.rc, post |-> FALSE, msg |-> <<>>]
            ELSE [rc |-> PMIX_SUCCESS, post |-> TRUE, msg |-> pk.msg]

----------------------------------------------------------------------------
(* The reply encoding, the client store and unpack_return *)

\* Attributes a blob can carry, and the undecodable item.
Attrs == {[k |-> "k1", v |-> 1], [k |-> "k1", v |-> 2], [k |-> "k2", v |-> 1]}
BAD == [k |-> "?", v |-> 0]
Items == Attrs \cup {BAD}

StoreProcs == {<<"nsA", 0>>, <<"nsA", 1>>, <<"nsB", 0>>}
EmptyStore == [p \in StoreProcs |-> <<>>]

\* pmix_bfrop.unpack of one value of type t at position pos of buffer buf.
unpack(buf, pos, t) ==
    IF pos > Len(buf) THEN PMIX_ERR_UNPACK_READ_PAST_END_OF_BUFFER
    ELSE IF buf[pos].t # t THEN PMIX_ERR_UNPACK_FAILURE
    ELSE PMIX_SUCCESS

\* pmix_bfrop.unpack of cnt values of type t starting at pos.
RECURSIVE unpackN(_, _, _, _)
unpackN(buf, pos, cnt, t) ==
    IF cnt = 0 THEN PMIX_SUCCESS
    ELSE IF unpack(buf, pos, t) # PMIX_SUCCESS THEN unpack(buf, pos, t)
    ELSE unpackN(buf, pos + 1, cnt - 1, t)

\* pmix_bfrop.unpack of one PMIX_KVAL from a blob's byte region.
unpack_kval(items, pos) ==
    IF pos > Len(items) THEN PMIX_ERR_UNPACK_READ_PAST_END_OF_BUFFER
    ELSE IF items[pos] = BAD THEN PMIX_ERR_UNPACK_FAILURE
    ELSE PMIX_SUCCESS

\* pmix_client_hash_store: a copy of kp is appended to the attributes of
\* (nspace, rank); the n-th insert of the pass fails when n = oom.
pmix_client_hash_store(st, ns, rank, kp, n, oom) ==
    IF n = oom THEN [rc |-> PMIX_ERR_OUT_OF_RESOURCE, store |-> st]
    ELSE [rc |-> PMIX_SUCCESS,
          store |-> [st EXCEPT ![<<ns, rank>>] = Append(@, kp)]]

\* pmix_client_hash_fetch of one key: a copy of the first attribute stored
\* under the key for (nspace, rank); nothing when there is none.
RECURSIVE FirstOf(_, _)
FirstOf(seq, key) ==
    IF seq = <<>> THEN <<>>
    ELSE IF Head(seq).k = key THEN <<Head(seq)>>
    ELSE FirstOf(Tail(seq), key)

fetch(st, p, key) == FirstOf(st[p], key)

\* The while loop of unpack_return over one blob (lines 515-522): a is the
\* accumulator [store, n, ins], i the blob's index, pos the next item.
RECURSIVE IngestBlob(_, _, _, _, _)
IngestBlob(a, blob, i, pos, oom) ==
    LET rc == unpack_kval(blob.items, pos) IN
    IF rc # PMIX_SUCCESS THEN [store |-> a.store, n |-> a.n, ins |-> a.ins, rc |-> rc]
    ELSE LET kp == blob.items[pos]
             h  == pmix_client_hash_store(a.store, blob.nspace, blob.rank, kp, a.n + 1, oom)
         IN IngestBlob([store |-> h.store, n |-> a.n + 1,
                        ins |-> Append(a.ins, [blob |-> i, kp |-> kp, ok |-> h.rc = PMIX_SUCCESS])],
                       blob, i, pos + 1, oom)

\* Variant: every blob is stored under the namespace and rank of the first.
RECURSIVE IngestBlobs_FirstProc(_, _, _, _, _)
IngestBlobs_FirstProc(a, mdx, i, np, oom) ==
    IF i > np THEN a
    ELSE IngestBlobs_FirstProc(
             IngestBlob(a, [mdx[i] EXCEPT !.nspace = mdx[1].nspace, !.rank = mdx[1].rank],
                        i, 1, oom),
             mdx, i + 1, np, oom)

\* Variant: the loop over the blobs ends at the first blob that fails to decode.
RECURSIVE IngestBlobs_StopAtError(_, _, _, _, _)
IngestBlobs_StopAtError(a, mdx, i, np, oom) ==
    IF i > np \/ a.rc = PMIX_ERR_UNPACK_FAILURE THEN a
    ELSE IngestBlobs_StopAtError(IngestBlob(a, mdx[i], i, 1, oom), mdx, i + 1, np, oom)

\* The for loop of unpack_return over the np blobs (lines 510-528).
RECURSIVE IngestBlobs(_, _, _, _, _)
IngestBlobs(a, mdx, i, np, oom) ==
    IF i > np THEN a
    ELSE IngestBlobs(IngestBlob(a, mdx[i], i, 1, oom), mdx, i + 1, np, oom)

\* The transient objects of unpack_return: the array of blobs of line 503,
\* the buffer view of blob i with the blob's byte region loaded into it
\* (511-512), and the kvals of blob i (514, 521), one per decoded item and
\* the one the last unpack of the blob fails into.
Mdx == <<"mdx", 0, 0>>
KvalsOf(ins, i) ==
    {<<"kp", i, k>> : k \in 1..(Cardinality({n \in DOMAIN ins : ins[n].blob = i}) + 1)}

\* What the pass over np blobs with the inserts ins created, and what of it
\* it released: every kval (519, 523) and every buffer view with its data
\* region (524).
Made(np, ins) ==
    {Mdx} \cup {<<"buf", i, 0>> : i \in 1..np} \cup UNION {KvalsOf(ins, i) : i \in 1..np}
Freed(np, ins) ==
    {<<"buf", i, 0>> : i \in 1..np} \cup UNION {KvalsOf(ins, i) : i \in 1..np}

\* Variant: a failure status in front does not end unpack_return; it is
\* returned after the blobs were ingested.
unpack_return_NoEarlyReturn(data, st, oom) ==
    LET none == [store |-> st, ins |-> <<>>, made |-> {}, freed |-> {}] IN
    IF unpack(data, 1, "INT") # PMIX_SUCCESS
    THEN [rc |-> unpack(data, 1, "INT"), used |-> 0] @@ none
    ELSE IF unpack(data, 2, "SIZE") # PMIX_SUCCESS
    THEN [rc |-> unpack(data, 2, "SIZE"), used |-> 1] @@ none
    ELSE LET np == data[2].v IN
    IF np = 0 THEN [rc |-> data[1].v, used |-> 2] @@ none
    ELSE IF unpackN(data, 3, np, "MODEX") # PMIX_SUCCESS
    THEN [rc |-> unpackN(data, 3, np, "MODEX"), used |-> 2, made |-> {Mdx}] @@ none
    ELSE LET mdx == [i \in 1..np |-> data[2 + i].v]
             a   == IngestBlobs([store |-> st, n |-> 0, ins |-> <<>>, rc |-> PMIX_SUCCESS],
                                mdx, 1, np, oom)
         IN [rc |-> data[1].v, used |-> 2 + np, store |-> a.store, ins |-> a.ins,
             made |-> Made(np, a.ins), freed |-> Freed(np, a.ins)]

\* unpack_return(data): the status it returns, the store afterwards, the
\* number of fields of the reply it decoded and the inserts it attempted.
unpack_return(data, st, oom) ==
    LET none == [store |-> st, ins |-> <<>>, made |-> {}, freed |-> {}] IN
    IF unpack(data, 1, "INT") # PMIX_SUCCESS
    THEN [rc |-> unpack(data, 1, "INT"), used |-> 0] @@ none
    ELSE IF data[1].v # PMIX_SUCCESS
    THEN [rc |-> data[1].v, used |-> 1] @@ none
    ELSE IF unpack(data, 2, "SIZE") # PMIX_SUCCESS
    THEN [rc |-> unpack(data, 2, "SIZE"), used |-> 1] @@ none
    ELSE LET np == data[2].v IN
    IF np = 0 THEN [rc |-> PMIX_SUCCESS, used |-> 2] @@ none
    ELSE IF unpackN(data, 3, np, "MODEX") # PMIX_SUCCESS
    THEN [rc |-> unpackN(data, 3, np, "MODEX"), used |-> 2, made |-> {Mdx}] @@ none
    ELSE LET mdx == [i \in 1..np |-> data[2 + i].v]
             a   == IngestBlobs([store |-> st, n |-> 0, ins |-> <<>>, rc |-> PMIX_SUCCESS],
                                mdx, 1, np, oom)
         IN [rc |-> IF a.rc # PMIX_SUCCESS /\ a.rc # PMIX_ERR_UNPACK_READ_PAST_END_OF_BUFFER
                    THEN a.rc ELSE PMIX_SUCCESS,
             used |-> 2 + np, store |-> a.store, ins |-> a.ins,
             made |-> Made(np, a.ins), freed |-> Freed(np, a.ins)]

----------------------------------------------------------------------------
(* The shmem store: values, jobs and the node-info and app-info paths *)

PMIX_ERR_NOT_FOUND == "PMIX_ERR_NOT_FOUND"
PMIX_ERROR == "PMIX_ERROR"
PMIX_ERR_NO_PERMISSIONS == "PMIX_ERR_NO_PERMISSIONS"
PMIX_ERR_NOT_SUPPORTED == "PMIX_ERR_NOT_SUPPORTED"
PMIX_ERR_DATA_VALUE_NOT_FOUND == "PMIX_ERR_DATA_VALUE_NOT_FOUND"
\* The process ends at a failing assert when assertions are compiled in.
ABORTED == "ABORTED"

\* Ranks that name no process: PMIX_RANK_WILDCARD above, and PMIX_RANK_UNDEF.
PMIX_RANK_UNDEF == -2
PMIX_RANK_IS_VALID(rank) == rank >= 0

\* The node id of a node whose id was never set (UINT32_MAX in the source).
NodeidUnset == -1

PMIX_SESSION_INFO == "PMIX_SESSION_INFO"
PMIX_NODE_INFO == "PMIX_NODE_INFO"
PMIX_APP_INFO == "PMIX_APP_INFO"
PMIX_NODEID == "PMIX_NODEID"
PMIX_HOSTNAME == "PMIX_HOSTNAME"
PMIX_APPNUM == "PMIX_APPNUM"
PMIX_APP_SIZE == "PMIX_APP_SIZE"
PMIX_NODE_INFO_ARRAY == "PMIX_NODE_INFO_ARRAY"
PMIX_APP_INFO_ARRAY == "PMIX_APP_INFO_ARRAY"

\* pmix_value_t: a string, a number, or a data array of infos.
StringValue(str) == [type |-> "PMIX_STRING", str |-> str, num |-> 0, darray |-> <<>>]
NumberValue(num) == [type |-> "PMIX_UINT32", str |-> "", num |-> num, darray |-> <<>>]
ArrayValue(infos) == [type |-> "PMIX_DATA_ARRAY", str |-> "", num |-> 0, darray |-> infos]

\* pmix_kval_t / pmix_info_t: a key and its value.  where says which stored
\* object the value is, "copy" for a value that belongs to the caller.
Kval(key, value, where) == [key |-> key, value |-> value, where |-> where]

\* Variant: the stored object itself is handed out.
CopyOf_Alias(kv) == kv

\* PMIX_VALUE_XFER into a new pmix_kval_t with a strdup'ed key.
CopyOf(kv) == [kv EXCEPT !.where = "copy"]

RECURSIVE CopyAll(_)
CopyAll(list) == IF list = <<>> THEN <<>> ELSE <<CopyOf(Head(list))>> \o CopyAll(Tail(list))

\* A qualifier: PMIX_NODE_INFO and PMIX_APP_INFO carry a flag, PMIX_NODEID
\* and PMIX_APPNUM a number, PMIX_HOSTNAME a string.
Qualifier(key, flag, num, str) == [key |-> key, flag |-> flag, num |-> num, str |-> str]

\* What a called function hands back: its status, the results it appended to
\* kvs, and the stores it consulted, in order.
Result(rc, kvs, log) == [rc |-> rc, kvs |-> kvs, log |-> log]
Consulted(stage, rank) == [stage |-> stage, rank |-> rank]

\* The first kval of list with this key, as a sequence of at most one.
RECURSIVE FirstKey(_, _)
FirstKey(list, key) ==
    IF list = <<>> THEN <<>>
    ELSE IF Head(list).key = key THEN <<Head(list)>>
    ELSE FirstKey(Tail(list), key)

\* fetch_all_node_info: one data array for a node, under key: the hostname
\* and the node id when set, then a copy of every info of the node.  It
\* starts with assert(false): with assertions compiled in the process ends.
fetch_all_node_info(key, nodeinfo, asserts) ==
    IF asserts THEN Result(ABORTED, <<>>, <<>>)
    ELSE Result(PMIX_SUCCESS,
                <<Kval(key,
                       ArrayValue(
                           (IF nodeinfo.hostname # NULL
                            THEN <<Kval(PMIX_HOSTNAME, StringValue(nodeinfo.hostname), "copy")>>
                            ELSE <<>>)
                           \o (IF nodeinfo.nodeid # NodeidUnset
                               THEN <<Kval(PMIX_NODEID, NumberValue(nodeinfo.nodeid), "copy")>>
                               ELSE <<>>)
                           \o CopyAll(nodeinfo.info)),
                       "copy")>>,
                <<>>)

\* The protocol version of the job's namespace is below 3.1.
Before31(job) ==
    job.version.major < 3 \/ (job.version.major = 3 /\ job.version.minor = 0)

\* Variant: a node without a hostname is not skipped for an old protocol.
RECURSIVE fetch_all_node_info_from_list_NoSkip(_, _, _, _)
fetch_all_node_info_from_list_NoSkip(job, nodeinfos, n, asserts) ==
    IF n > Len(nodeinfos) THEN Result(PMIX_SUCCESS, <<>>, <<>>)
    ELSE LET ni   == nodeinfos[n]
             one  == fetch_all_node_info(IF Before31(job) THEN ni.hostname
                                         ELSE PMIX_NODE_INFO_ARRAY, ni, asserts)
             rest == fetch_all_node_info_from_list_NoSkip(job, nodeinfos, n + 1, asserts)
         IN IF one.rc # PMIX_SUCCESS THEN one
            ELSE Result(rest.rc, one.kvs \o rest.kvs, <<>>)

\* fetch_all_node_info_from_list: the loop over the nodes from node n on.
RECURSIVE fetch_all_node_info_from_list(_, _, _, _)
fetch_all_node_info_from_list(job, nodeinfos, n, asserts) ==
    IF n > Len(nodeinfos) THEN Result(PMIX_SUCCESS, <<>>, <<>>)
    ELSE LET ni == nodeinfos[n] IN
         IF Before31(job) /\ ni.hostname = NULL
         THEN fetch_all_node_info_from_list(job, nodeinfos, n + 1, asserts)
         ELSE LET one == fetch_all_node_info(IF Before31(job) THEN ni.hostname
                                             ELSE PMIX_NODE_INFO_ARRAY, ni, asserts)
                  rest == fetch_all_node_info_from_list(job, nodeinfos, n + 1, asserts)
              IN IF one.rc # PMIX_SUCCESS THEN one
                 ELSE Result(rest.rc, one.kvs \o rest.kvs, <<>>)

\* Variant: the last PMIX_NODEID or PMIX_HOSTNAME qualifier names the node.
RECURSIVE NodeQualifier_Last(_)
NodeQualifier_Last(info) ==
    IF info = <<>> THEN <<>>
    ELSE IF info[Len(info)].key \in {PMIX_NODEID, PMIX_HOSTNAME} THEN <<info[Len(info)]>>
    ELSE NodeQualifier_Last(SubSeq(info, 1, Len(info) - 1))

\* The first PMIX_NODEID or PMIX_HOSTNAME qualifier, as a sequence of at most one.
RECURSIVE NodeQualifier(_)
NodeQualifier(info) ==
    IF info = <<>> THEN <<>>
    ELSE IF Head(info).key \in {PMIX_NODEID, PMIX_HOSTNAME} THEN <<Head(info)>>
    ELSE NodeQualifier(Tail(info))

\* The first node with a set node id equal to nid.
RECURSIVE NodeById(_, _)
NodeById(nodeinfos, nid) ==
    IF nodeinfos = <<>> THEN <<>>
    ELSE IF Head(nodeinfos).nodeid # NodeidUnset /\ Head(nodeinfos).nodeid = nid
         THEN <<Head(nodeinfos)>>
    ELSE NodeById(Tail(nodeinfos), nid)

\* pmix_gds_shmem_get_nodeinfo_by_nodename: the first node with this hostname.
RECURSIVE pmix_gds_shmem_get_nodeinfo_by_nodename(_, _)
pmix_gds_shmem_get_nodeinfo_by_nodename(nodeinfos, hostname) ==
    IF nodeinfos = <<>> THEN <<>>
    ELSE IF Head(nodeinfos).hostname = hostname THEN <<Head(nodeinfos)>>
    ELSE pmix_gds_shmem_get_nodeinfo_by_nodename(Tail(nodeinfos), hostname)

\* Variant: the scan for a key goes on behind the first match.
pmix_gds_shmem_fetch_nodeinfo_AllMatches(key, job, nodeinfos, info, myhost, asserts) ==
    LET q        == NodeQualifier(info)
        found    == q # <<>>
        nid      == IF found /\ q[1].key = PMIX_NODEID THEN q[1].num ELSE NodeidUnset
        hostname == IF found
                    THEN (IF q[1].key = PMIX_HOSTNAME THEN q[1].str ELSE NULL)
                    ELSE myhost
        nodeinfo == IF nid # NodeidUnset THEN NodeById(nodeinfos, nid)
                    ELSE IF hostname # NULL
                         THEN pmix_gds_shmem_get_nodeinfo_by_nodename(nodeinfos, hostname)
                    ELSE <<>>
    IN IF ~found /\ key = NULL
       THEN fetch_all_node_info_from_list(job, nodeinfos, 1, asserts)
       ELSE IF nodeinfo = <<>>
       THEN Result(IF ~found THEN PMIX_ERR_DATA_VALUE_NOT_FOUND ELSE PMIX_ERR_NOT_FOUND,
                   <<>>, <<>>)
       ELSE IF key = NULL
       THEN fetch_all_node_info(
                IF Before31(job)
                THEN (IF nodeinfo[1].hostname = NULL THEN myhost ELSE nodeinfo[1].hostname)
                ELSE PMIX_NODE_INFO_ARRAY,
                nodeinfo[1], asserts)
       ELSE LET hits == SelectSeq(nodeinfo[1].info, LAMBDA kv : kv.key = key)
            IN IF hits = <<>> THEN Result(PMIX_ERR_NOT_FOUND, <<>>, <<>>)
               ELSE Result(PMIX_SUCCESS, CopyAll(hits), <<>>)

\* pmix_gds_shmem_fetch_nodeinfo(key, job, nodeinfos, info, ninfo, kvs); myhost
\* is pmix_globals.hostname.
pmix_gds_shmem_fetch_nodeinfo(key, job, nodeinfos, info, myhost, asserts) ==
    LET q        == NodeQualifier(info)
        found    == q # <<>>
        nid      == IF found /\ q[1].key = PMIX_NODEID THEN q[1].num ELSE NodeidUnset
        hostname == IF found
                    THEN (IF q[1].key = PMIX_HOSTNAME THEN q[1].str ELSE NULL)
                    ELSE myhost
        nodeinfo == IF nid # NodeidUnset THEN NodeById(nodeinfos, nid)
                    ELSE IF hostname # NULL
                         THEN pmix_gds_shmem_get_nodeinfo_by_nodename(nodeinfos, hostname)
                    ELSE <<>>
    IN IF ~found /\ key = NULL
       THEN fetch_all_node_info_from_list(job, nodeinfos, 1, asserts)
       ELSE IF nodeinfo = <<>>
       THEN Result(IF ~found THEN PMIX_ERR_DATA_VALUE_NOT_FOUND ELSE PMIX_ERR_NOT_FOUND,
                   <<>>, <<>>)
       ELSE IF key = NULL
       THEN fetch_all_node_info(
                IF Before31(job)
                THEN (IF nodeinfo[1].hostname = NULL THEN myhost ELSE nodeinfo[1].hostname)
                ELSE PMIX_NODE_INFO_ARRAY,
                nodeinfo[1], asserts)
       ELSE LET hit == FirstKey(nodeinfo[1].info, key)
            IN IF hit = <<>> THEN Result(PMIX_ERR_NOT_FOUND, <<>>, <<>>)
               ELSE Result(PMIX_SUCCESS, <<CopyOf(hit[1])>>, <<>>)

\* fetch_all_app_info: one data array per app, holding the app number and
\* then a copy of every info of the app.
RECURSIVE fetch_all_app_info(_)
fetch_all_app_info(apps) ==
    IF apps = <<>> THEN <<>>
    ELSE <<Kval(PMIX_APP_INFO_ARRAY,
                ArrayValue(<<Kval(PMIX_APPNUM, NumberValue(Head(apps).appnum), "copy")>>
                           \o CopyAll(Head(apps).appinfo)),
                "copy")>>
         \o fetch_all_app_info(Tail(apps))

\* The first PMIX_APPNUM qualifier, as a sequence of at most one.
RECURSIVE AppQualifier(_)
AppQualifier(info) ==
    IF info = <<>> THEN <<>>
    ELSE IF Head(info).key = PMIX_APPNUM THEN <<Head(info)>>
    ELSE AppQualifier(Tail(info))

RECURSIVE AppByNum(_, _)
AppByNum(apps, appnum) ==
    IF apps = <<>> THEN <<>>
    ELSE IF Head(apps).appnum = appnum THEN <<Head(apps)>>
    ELSE AppByNum(Tail(apps), appnum)

\* The scan of an app's info list: every info for a null key, else the first
\* with the key.
AppScan(appinfo, key) ==
    LET hits == IF key = NULL THEN CopyAll(appinfo) ELSE CopyAll(FirstKey(appinfo, key))
    IN Result(IF hits = <<>> THEN PMIX_ERR_NOT_FOUND ELSE PMIX_SUCCESS, hits, <<>>)

\* pmix_gds_shmem_fetch_appinfo(key, job, target, info, ninfo, kvs); me holds
\* pmix_globals.hostname and pmix_globals.appnum.
pmix_gds_shmem_fetch_appinfo(key, job, target, info, me, asserts) ==
    LET q      == AppQualifier(info)
        found  == q # <<>>
        appnum == IF found THEN q[1].num ELSE me.appnum
        app    == AppByNum(target, appnum)
    IN IF ~found /\ key = NULL
       THEN Result(PMIX_SUCCESS, fetch_all_app_info(target), <<>>)
       ELSE IF app = <<>> THEN Result(PMIX_ERR_NOT_FOUND, <<>>, <<>>)
       ELSE LET nd == pmix_gds_shmem_fetch_nodeinfo(key, job, app[1].nodeinfo, info,
                                                    me.hostname, asserts)
            IN IF nd.rc # PMIX_ERR_DATA_VALUE_NOT_FOUND THEN nd
               ELSE AppScan(app[1].appinfo, key)

\* pmix_hash2_fetch(ht, rank, key, ...): a copy of every kval of the rank for
\* a null key, else of the first kval with the key; not-found for a rank or
\* key the table does not hold.
pmix_hash2_fetch(ht, rank, key) ==
    IF rank \notin DOMAIN ht THEN Result(PMIX_ERR_NOT_FOUND, <<>>, <<Consulted("hash", rank)>>)
    ELSE LET hits == IF key = NULL THEN CopyAll(ht[rank]) ELSE CopyAll(FirstKey(ht[rank], key))
         IN Result(IF key # NULL /\ hits = <<>> THEN PMIX_ERR_NOT_FOUND ELSE PMIX_SUCCESS,
                   hits, <<Consulted("hash", rank)>>)

\* job->ffgds->fetch(...): the fallback store answers with ff whatever it is asked.
ffgds_fetch(ff) == Result(ff.rc, ff.kvs, <<Consulted("ffgds", 0)>>)

\* b after a: the status of b, the results and the log of both.
Then(a, b) == Result(b.rc, a.kvs \o b.kvs, a.log \o b.log)

\* pmix_gds_shmem_get_job_tracker(nspace, create, &job): the job of the
\* namespace; a missing job is created only when create is set.
pmix_gds_shmem_get_job_tracker(registry, ns, create, fresh) ==
    IF ns \in DOMAIN registry
    THEN [rc |-> PMIX_SUCCESS, job |-> <<registry[ns]>>, registry |-> registry]
    ELSE IF create
    THEN [rc |-> PMIX_SUCCESS, job |-> <<fresh>>, registry |-> registry @@ (ns :> fresh)]
    ELSE [rc |-> PMIX_ERR_NOT_FOUND, job |-> <<>>, registry |-> registry]

\* pmix_check_node_info(key), pmix_check_app_info(key): the well-known node
\* and app attribute names.
pmix_check_node_info(key) == key \in {PMIX_HOSTNAME, PMIX_NODEID}
pmix_check_app_info(key) == key \in {PMIX_APP_SIZE}

\* Variant: PMIX_SESSION_INFO is seen only as the first qualifier.
RECURSIVE ScanQualifiers_FirstOnly(_, _, _)
ScanQualifiers_FirstOnly(qualifiers, n, f) ==
    IF n > Len(qualifiers) THEN f
    ELSE IF qualifiers[n].key = PMIX_SESSION_INFO /\ n = 1 THEN [f EXCEPT !.session = TRUE]
    ELSE IF qualifiers[n].key = PMIX_NODE_INFO
         THEN ScanQualifiers_FirstOnly(qualifiers, n + 1,
                             [f EXCEPT !.nodeinfo = qualifiers[n].flag, !.nigiven = TRUE])
    ELSE IF qualifiers[n].key = PMIX_APP_INFO
         THEN ScanQualifiers_FirstOnly(qualifiers, n + 1,
                             [f EXCEPT !.appinfo = qualifiers[n].flag, !.apigiven = TRUE])
    ELSE ScanQualifiers_FirstOnly(qualifiers, n + 1, f)

\* The loop over the qualifiers of pmix_gds_shmem_fetch from qualifier n on,
\* with the flags f set so far.
RECURSIVE ScanQualifiers(_, _, _)
ScanQualifiers(qualifiers, n, f) ==
    IF n > Len(qualifiers) THEN f
    ELSE IF qualifiers[n].key = PMIX_SESSION_INFO THEN [f EXCEPT !.session = TRUE]
    ELSE IF qualifiers[n].key = PMIX_NODE_INFO
         THEN ScanQualifiers(qualifiers, n + 1,
                             [f EXCEPT !.nodeinfo = qualifiers[n].flag, !.nigiven = TRUE])
    ELSE IF qualifiers[n].key = PMIX_APP_INFO
         THEN ScanQualifiers(qualifiers, n + 1,
                             [f EXCEPT !.appinfo = qualifiers[n].flag, !.apigiven = TRUE])
    ELSE ScanQualifiers(qualifiers, n + 1, f)

NoFlags == [session |-> FALSE, nodeinfo |-> FALSE, appinfo |-> FALSE,
            nigiven |-> FALSE, apigiven |-> FALSE]

\* Variant: the key's name is not looked at.
ClassifyKey_None(key, f) == f

\* Variant: the key's name is looked at whatever the qualifiers.
ClassifyKey_IgnoreGiven(key, f) ==
    IF key # NULL
    THEN (IF pmix_check_node_info(key) THEN [f EXCEPT !.nodeinfo = TRUE]
          ELSE IF pmix_check_app_info(key) THEN [f EXCEPT !.appinfo = TRUE]
          ELSE f)
    ELSE f

\* The check for node and app keys when no qualifier said which is meant.
ClassifyKey(key, f) ==
    IF key # NULL /\ ~f.nigiven /\ ~f.apigiven
    THEN (IF pmix_check_node_info(key) THEN [f EXCEPT !.nodeinfo = TRUE]
          ELSE IF pmix_check_app_info(key) THEN [f EXCEPT !.appinfo = TRUE]
          ELSE f)
    ELSE f

\* Variant: the search goes on behind the first rank that holds the key.
RECURSIVE RankScan_NoStop(_, _, _)
RankScan_NoStop(job, key, rnk) ==
    IF rnk >= job.nprocs THEN Result(PMIX_ERR_NOT_FOUND, <<>>, <<>>) @@ [done |-> FALSE]
    ELSE LET h    == pmix_hash2_fetch(job.ht, rnk, key)
             rest == RankScan_NoStop(job, key, rnk + 1)
         IN IF h.rc = PMIX_SUCCESS /\ key # NULL
            THEN Result(h.rc, h.kvs \o rest.kvs, h.log \o rest.log) @@ [done |-> TRUE]
            ELSE Then(h, rest) @@ [done |-> rest.done]

\* The search of all known ranks for rank PMIX_RANK_UNDEF, from rank rnk on.
RECURSIVE RankScan(_, _, _)
RankScan(job, key, rnk) ==
    IF rnk >= job.nprocs THEN Result(PMIX_ERR_NOT_FOUND, <<>>, <<>>) @@ [done |-> FALSE]
    ELSE LET h == pmix_hash2_fetch(job.ht, rnk, key)
         IN IF h.rc = PMIX_SUCCESS /\ key # NULL THEN h @@ [done |-> TRUE]
            ELSE LET rest == RankScan(job, key, rnk + 1)
                 IN Then(h, rest) @@ [done |-> rest.done]

\* Variant: the job-level info is read only for a key.
JobinfoScan_KeyOnly(job, key) ==
    Result(PMIX_SUCCESS,
           IF key = NULL THEN <<>> ELSE CopyAll(FirstKey(job.jobinfo, key)),
           <<Consulted("jobinfo", 0)>>)

\* The scan of the job-level info: every kval for a null key, else the first
\* with the key.
JobinfoScan(job, key) ==
    Result(PMIX_SUCCESS,
           IF key = NULL THEN CopyAll(job.jobinfo) ELSE CopyAll(FirstKey(job.jobinfo, key)),
           <<Consulted("jobinfo", 0)>>)

\* Variant: the fallback store is asked behind every direct lookup.
Doover_FallbackAlways(job, proc, key, ff) ==
    IF proc.rank = PMIX_RANK_UNDEF
    THEN LET scan == RankScan(job, key, 0)
         IN IF scan.done THEN Result(scan.rc, scan.kvs, scan.log)
            ELSE LET local == Then(scan, JobinfoScan(job, key))
                 IN IF key # NULL THEN Then(local, ffgds_fetch(ff))
                    ELSE LET all == Then(local, pmix_hash2_fetch(job.ht, PMIX_RANK_WILDCARD, NULL))
                         IN IF all.rc # PMIX_SUCCESS THEN Then(all, ffgds_fetch(ff)) ELSE all
    ELSE Then(pmix_hash2_fetch(job.ht, proc.rank, key), ffgds_fetch(ff))

\* pmix_gds_shmem_fetch from the label doover on.
Doover(job, proc, key, ff) ==
    IF proc.rank = PMIX_RANK_UNDEF
    THEN LET scan == RankScan(job, key, 0)
         IN IF scan.done THEN Result(scan.rc, scan.kvs, scan.log)
            ELSE LET local == Then(scan, JobinfoScan(job, key))
                 IN IF key # NULL THEN Then(local, ffgds_fetch(ff))
                    ELSE LET all == Then(local, pmix_hash2_fetch(job.ht, PMIX_RANK_WILDCARD, NULL))
                         IN IF all.rc # PMIX_SUCCESS THEN Then(all, ffgds_fetch(ff)) ELSE all
    ELSE LET h == pmix_hash2_fetch(job.ht, proc.rank, key)
         IN IF h.rc # PMIX_SUCCESS THEN Then(h, ffgds_fetch(ff)) ELSE h

\* A job with no data, as pmix_gds_shmem_get_job_tracker would create it.
EmptyJob ==
    [nprocs |-> 0, version |-> [major |-> 4, minor |-> 1], ht |-> <<>>, jobinfo |-> <<>>,
     nodeinfo |-> <<>>, apps |-> <<>>]

\* Variant: the fetch asks the registry to create a missing job.
FetchJob_Create(registry, ns) == pmix_gds_shmem_get_job_tracker(registry, ns, TRUE, EmptyJob)

\* pmix_gds_shmem_fetch: the job of the proc's namespace; the fetch never creates one.
FetchJob(registry, ns) == pmix_gds_shmem_get_job_tracker(registry, ns, FALSE, EmptyJob)

\* pmix_gds_shmem_fetch: the reserved combination of a null key with the wildcard rank.
Reserved(proc, key) == key = NULL /\ proc.rank = PMIX_RANK_WILDCARD

\* Variant: a failing path falls through to doover for every rank.
NodeOrAppPath_DooverAnyRank(job, proc, key, qualifiers, f, me, ff, asserts) ==
    LET path == IF f.nodeinfo
                THEN Then(Result(PMIX_SUCCESS, <<>>, <<Consulted("nodeinfo", 0)>>),
                          pmix_gds_shmem_fetch_nodeinfo(key, job, job.nodeinfo, qualifiers,
                                                        me.hostname, asserts))
                ELSE Then(Result(PMIX_SUCCESS, <<>>, <<Consulted("appinfo", 0)>>),
                          pmix_gds_shmem_fetch_appinfo(key, job, job.apps, qualifiers,
                                                       me, asserts))
    IN IF path.rc # PMIX_SUCCESS /\ path.rc # ABORTED
       THEN Then(path, Doover(job, proc, key, ff))
       ELSE path

\* pmix_gds_shmem_fetch: the node-info or app-info path for a rank that names
\* no process, and the jump to doover when the path fails for the wildcard rank.
NodeOrAppPath(job, proc, key, qualifiers, f, me, ff, asserts) ==
    LET path == IF f.nodeinfo
                THEN Then(Result(PMIX_SUCCESS, <<>>, <<Consulted("nodeinfo", 0)>>),
                          pmix_gds_shmem_fetch_nodeinfo(key, job, job.nodeinfo, qualifiers,
                                                        me.hostname, asserts))
                ELSE Then(Result(PMIX_SUCCESS, <<>>, <<Consulted("appinfo", 0)>>),
                          pmix_gds_shmem_fetch_appinfo(key, job, job.apps, qualifiers,
                                                       me, asserts))
    IN IF path.rc # PMIX_SUCCESS /\ path.rc # ABORTED /\ proc.rank = PMIX_RANK_WILDCARD
       THEN Then(path, Doover(job, proc, key, ff))
       ELSE path

\* pmix_gds_shmem_fetch(proc, scope, copy, key, qualifiers, nqual, kvs): the
\* status, the results appended to kvs, the stores consulted and the registry
\* afterwards.
pmix_gds_shmem_fetch(registry, me, proc, key, qualifiers, ff, asserts) ==
    LET t == FetchJob(registry, proc.nspace) IN
    IF t.rc # PMIX_SUCCESS
    THEN Result(t.rc, <<>>, <<>>) @@ [registry |-> t.registry]
    ELSE (LET job == t.job[1]
              f   == ClassifyKey(key, ScanQualifiers(qualifiers, 1, NoFlags))
          IN IF Reserved(proc, key)
             THEN Result(IF asserts THEN ABORTED ELSE PMIX_ERR_NOT_SUPPORTED, <<>>, <<>>)
             ELSE IF ScanQualifiers(qualifiers, 1, NoFlags).session
             THEN ffgds_fetch(ff)
             ELSE IF ~PMIX_RANK_IS_VALID(proc.rank) /\ (f.nodeinfo \/ f.appinfo)
             THEN NodeOrAppPath(job, proc, key, qualifiers, f, me, ff, asserts)
             ELSE Doover(job, proc, key, ff))
         @@ [registry |-> t.registry]

----------------------------------------------------------------------------
(* Inputs *)

Threads == {"t1", "t2"}
UserData == {"u1", "u2"}

\* The proc arrays a caller passes: NULL, or an array of up to MaxProcs procs.
CallerProcs(own) == {[nspace |-> Field(own), rank |-> PMIX_RANK_WILDCARD],
                     [nspace |-> Field(NsOther), rank |-> 0]}

RECURSIVE SeqsUpTo(_, _)
SeqsUpTo(S, n) ==
    IF n = 0 THEN {<<>>}
    ELSE LET T == SeqsUpTo(S, n - 1)
         IN T \cup {Append(q, x) : q \in {t \in T : Len(t) = n - 1}, x \in S}

\* Every argument list of PMIx_Fence_nb the model draws: a non-null array holds
\* at least nprocs entries.
AllArgs(own) ==
    { [procs |-> ps, nprocs |-> n, collect_data |-> c, cbfunc |-> f.fn, cbdata |-> f.data]
      : ps \in {NullProcs} \cup {ProcArray(q) : q \in SeqsUpTo(CallerProcs(own), MaxProcs)},
        n \in 0..MaxProcs, c \in {0, 1, 2},
        f \in {[fn |-> NULL, data |-> "u1"], [fn |-> "user", data |-> "u1"],
               [fn |-> "user", data |-> "u2"]} }

\* The whole own namespace, with collection.
PlainArgs(own) == {a \in AllArgs(own) : a.procs = NullProcs /\ a.nprocs = 0 /\ a.collect_data = 1}

WellSized(a) == a.procs = NullProcs \/ a.nprocs <= Len(a.procs.arr)

\* The arguments of the call specification.
CallArgs(own) == {a \in AllArgs(own) : WellSized(a) /\ a.cbdata = "u1"}

\* The arguments of the ingestion specification.
IngestArgs(own) == {a \in PlainArgs(own) : a.cbfunc = "user" /\ a.cbdata = "u1"}

\* The arguments of blocking fences: the whole own namespace, or a null
\* array with a count, which PMIx_Fence_nb rejects.
FenceArgs(own) ==
    {a \in AllArgs(own) : a.procs = NullProcs /\ a.nprocs \in {0, 1} /\ a.collect_data = 1
                           /\ a.cbfunc = NULL}

PackFailures == 0..4
NoPackFailure == {0}

\* Replies: a buffer of typed fields.
IntField(st) == [t |-> "INT", v |-> st]
SizeField(n) == [t |-> "SIZE", v |-> n]
ModexField(b) == [t |-> "MODEX", v |-> b]

Blobs(maxItems) ==
    { [nspace |-> p[1], rank |-> p[2], items |-> it]
      : p \in StoreProcs, it \in SeqsUpTo(Items, maxItems) }

ServerErrors == {"PMIX_ERR_TIMEOUT"}

\* Replies that carry no blob: an empty buffer, a failure status, a success
\* status without a blob count, and a success status with no blobs.
StatusReplies ==
    {<<>>, <<IntField(PMIX_SUCCESS)>>, <<IntField(PMIX_SUCCESS), SizeField(0)>>}
    \cup {<<IntField(e)>> : e \in ServerErrors}

\* Well-formed replies with one to maxBlobs blobs.
GoodReplies(maxBlobs, maxItems) ==
    { <<IntField(PMIX_SUCCESS), SizeField(Len(bs))>> \o [i \in 1..Len(bs) |-> ModexField(bs[i])]
      : bs \in SeqsUpTo(Blobs(maxItems), maxBlobs) \ {<<>>} }

\* Replies with one blob of B behind a failure status, and replies whose blob
\* count exceeds the blobs that follow.
OddReplies(B) ==
    { <<IntField(st), SizeField(1 + extra), ModexField(b)>>
      : st \in {PMIX_SUCCESS} \cup ServerErrors, extra \in {0, 1}, b \in B }

\* The replies of the protocol specification: no blob, or one well-formed
\* blob of one item.
SmallBlobs == {b \in Blobs(1) : b.nspace = "nsA" /\ b.rank = 0
                                /\ b.items \in {<<[k |-> "k1", v |-> 1]>>, <<BAD>>}}
SmallReplies ==
    StatusReplies \cup {<<IntField(PMIX_SUCCESS), SizeField(1), ModexField(b)>> : b \in SmallBlobs}

\* The replies of the ingestion specification.
AllReplies == StatusReplies \cup OddReplies(Blobs(1)) \cup GoodReplies(MaxBlobs, MaxItems)

\* The insert of an ingestion pass that runs out of memory (0: none).
OomPoints == 0..2
NoOom == {0}

\* The inputs of the fetches.
Me == [hostname |-> "h1", appnum |-> 0]

\* The per-rank table of a job of nprocs ranks in which the ranks of holders
\* hold k1 and a hostname, and all hold a job-wide k2 and app size under the
\* wildcard rank.
HashTable(nprocs, holders) ==
    LET ranks == (0..(nprocs - 1)) \cup (IF holders = {} THEN {} ELSE {PMIX_RANK_WILDCARD})
    IN [r \in ranks |->
          IF r = PMIX_RANK_WILDCARD
          THEN <<Kval("k2", StringValue("wild"), "ht"),
                 Kval(PMIX_APP_SIZE, NumberValue(4), "ht")>>
          ELSE IF r \in holders
          THEN <<Kval("k1", NumberValue(10 + r), "ht"),
                 Kval(PMIX_HOSTNAME, StringValue("h2"), "ht")>>
          ELSE <<>>]

NodeA == [hostname |-> "h1", nodeid |-> 1,
          info |-> <<Kval(PMIX_HOSTNAME, StringValue("h1"), "node"),
                     Kval("k1", NumberValue(21), "node"),
                     Kval("k1", NumberValue(22), "node")>>]
NodeB == [hostname |-> NULL, nodeid |-> NodeidUnset,
          info |-> <<Kval("k2", NumberValue(23), "node")>>]
NodeLists == {<<>>, <<NodeA>>, <<NodeB, NodeA>>}

AppOwn == [appnum |-> 0, nodeinfo |-> <<>>,
           appinfo |-> <<Kval(PMIX_APP_SIZE, NumberValue(2), "app"),
                         Kval("k1", NumberValue(31), "app")>>]
AppOther == [appnum |-> 1, nodeinfo |-> <<NodeA>>,
             appinfo |-> <<Kval("k1", NumberValue(32), "app")>>]
AppLists == {<<>>, <<AppOther, AppOwn>>}

Jobs ==
    { [nprocs |-> MaxRanks, version |-> v, ht |-> HashTable(MaxRanks, h), jobinfo |-> ji,
       nodeinfo |-> nl, apps |-> al]
      : v \in {[major |-> 3, minor |-> 0], [major |-> 4, minor |-> 1]},
        h \in {{}, {MaxRanks - 1}, 0..(MaxRanks - 1)},
        ji \in {<<>>, <<Kval("k1", NumberValue(41), "job")>>},
        nl \in NodeLists, al \in AppLists }

\* What the fallback store answers.
FallbackAnswers ==
    { [rc |-> PMIX_ERR_NOT_FOUND, kvs |-> <<>>],
      [rc |-> PMIX_SUCCESS, kvs |-> <<Kval("k1", NumberValue(51), "copy")>>] }

Qualifiers ==
    { Qualifier(PMIX_SESSION_INFO, TRUE, 0, ""),
      Qualifier(PMIX_NODE_INFO, TRUE, 0, ""), Qualifier(PMIX_NODE_INFO, FALSE, 0, ""),
      Qualifier(PMIX_APP_INFO, TRUE, 0, ""), Qualifier(PMIX_APP_INFO, FALSE, 0, ""),
      Qualifier(PMIX_NODEID, FALSE, 1, ""), Qualifier(PMIX_NODEID, FALSE, NodeidUnset, ""),
      Qualifier(PMIX_HOSTNAME, FALSE, 0, "h9"),
      Qualifier(PMIX_APPNUM, FALSE, 1, "") }

FetchKeys == {NULL, "k1", PMIX_HOSTNAME, PMIX_APP_SIZE}

\* The procs asked about: the ranks of the registered namespace, the two
\* ranks that name no process, and a rank of a namespace with no job.
FetchProcs ==
    { [nspace |-> "nsA", rank |-> r]
      : r \in (0..(MaxRanks - 1)) \cup {PMIX_RANK_WILDCARD, PMIX_RANK_UNDEF} }
    \cup {[nspace |-> "nsB", rank |-> 0]}

Queries ==
    { [proc |-> p, key |-> k, qualifiers |-> q]
      : p \in FetchProcs, k \in FetchKeys, q \in SeqsUpTo(Qualifiers, MaxQuals) }

NoQuery == [proc |-> [nspace |-> "", rank |-> 0], key |-> NULL, qualifiers |-> <<>>]
NoResult == Result("NONE", <<>>, <<>>)

\* No shmem store in use.
NoStore == [registry |-> <<>>, asserts |-> FALSE, ff |-> [rc |-> PMIX_ERR_NOT_FOUND, kvs |-> <<>>],
            asked |-> FALSE, q |-> NoQuery, res |-> NoResult, mut |-> 0]

\* The inputs of pmix_os_dirpath_destroy.  A path below the directory given
\* is the sequence of its names, <<>> the directory given itself; the trees
\* have two levels of names.
Names == {"a", "b"}
Paths == {<<>>} \cup {<<n>> : n \in Names} \cup {<<n, m>> : n \in Names, m \in Names}

\* A file system says of every path whether it is a file, a directory or not
\* there; what is there lies in a directory.
FileSystems ==
    {fs \in [Paths -> {"none", "file", "dir"}] :
        \A q \in Paths : (q # <<>> /\ fs[q] # "none") => fs[SubSeq(q, 1, Len(q) - 1)] = "dir"}

\* The callbacks: none, or one that allows the removal of the names of allow.
Callbacks ==
    {[given |-> FALSE, allow |-> {}]} \cup {[given |-> TRUE, allow |-> a] : a \in SUBSET Names}

\* No directory call in use.
NoDir == [fs |-> [q \in Paths |-> "none"], noperm |-> {}, recursive |-> FALSE,
          cb |-> [given |-> FALSE, allow |-> {}], called |-> FALSE, stack |-> <<>>,
          ret |-> "NONE", log |-> <<>>, others |-> 0]

----------------------------------------------------------------------------
(* State *)

IdleProg == [pc |-> "idle", cb |-> 0, rc |-> PMIX_SUCCESS, reply |-> <<>>,
             pre |-> EmptyStore, ins |-> <<>>, used |-> 0, made |-> {}, freed |-> {}]
NoCall == [n |-> 0, args |-> [procs |-> NullProcs, nprocs |-> 0, collect_data |-> 0,
                              cbfunc |-> NULL, cbdata |-> "u1"],
           pfail |-> 0, rc |-> PMIX_SUCCESS, req |-> 0]
IdleThread == [pc |-> "idle", req |-> 0, rc |-> "UNSET", ret |-> "NONE"]
NoWaitObject == [state |-> "none", active |-> FALSE, status |-> "UNSET"]

InitCommon ==
    /\ reqs = <<>>
    /\ sent = <<>>
    /\ last = NoCall
    /\ prog = IdleProg
    /\ fired = <<>>
    /\ delivered = <<>>
    /\ thr = [t \in Threads |-> IdleThread]
    /\ wobj = [t \in Threads |-> NoWaitObject]

\* The protocol specification starts with an initialised client.
Init ==
    /\ gds = NoStore
    /\ dir = NoDir
    /\ init_cntr = 1
    /\ nspace = NsShort
    /\ store = EmptyStore
    /\ InitCommon

\* The call specification starts with or without PMIx_Init having run.
InitCall ==
    /\ gds = NoStore
    /\ dir = NoDir
    /\ init_cntr \in {0, 1}
    /\ nspace \in OwnNamespaces
    /\ store = EmptyStore
    /\ InitCommon

\* The ingestion specification starts with an empty store or with the
\* attributes an earlier fence left in it.
InitIngest ==
    /\ gds = NoStore
    /\ dir = NoDir
    /\ init_cntr = 1
    /\ nspace = NsShort
    /\ store \in {EmptyStore,
                  [EmptyStore EXCEPT ![<<"nsA", 0>>] = <<[k |-> "k1", v |-> 2]>>]}
    /\ InitCommon

----------------------------------------------------------------------------
(* PMIx_Fence_nb *)

\* The effect of one PMIx_Fence_nb(a.procs, a.nprocs, a.collect_data, fn, data)
\* on the request objects and the transport: on success a new pmix_cb_t holding
\* cbfunc and cbdata is created and posted with the message.
FenceNbEffect(a, fn, data, pfail, g) ==
    LET res == FenceNbResult(init_cntr, nspace, a.procs, a.nprocs, a.collect_data, pfail, g)
        id  == Len(reqs) + 1
        args == [a EXCEPT !.cbfunc = fn, !.cbdata = data]
    IN /\ last' = [n |-> last.n + 1, args |-> args, pfail |-> pfail, rc |-> res.rc,
                   req |-> IF res.post THEN id ELSE 0]
       /\ IF res.post
          THEN /\ reqs' = Append(reqs, [cbfunc |-> fn, cbdata |-> data, state |-> "pending"])
               /\ sent' = Append(sent, [msg |-> res.msg, cb |-> id, args |-> args])
          ELSE UNCHANGED <<reqs, sent>>

\* Variant: PMIx_Fence_nb invokes the callback itself once the request is posted.
FenceNb_SyncCallback(Args, PFail, limit) ==
    /\ last.n < limit
    /\ \E a \in Args, pfail \in PFail, g \in BOOLEAN :
          FenceNbEffect(a, a.cbfunc, a.cbdata, pfail, g)
    /\ fired' = IF last'.req # 0 /\ last'.args.cbfunc # NULL
                THEN Append(fired, [cb |-> last'.req, fn |-> last'.args.cbfunc,
                                    cbdata |-> last'.args.cbdata, status |-> PMIX_SUCCESS])
                ELSE fired
    /\ UNCHANGED <<dir, gds, init_cntr, nspace, store, prog, delivered, thr, wobj>>

\* A caller invokes PMIx_Fence_nb with its own callback.
FenceNb(Args, PFail, limit) ==
    /\ last.n < limit
    /\ \E a \in Args, pfail \in PFail, g \in BOOLEAN :
          FenceNbEffect(a, a.cbfunc, a.cbdata, pfail, g)
    /\ UNCHANGED <<dir, gds, init_cntr, nspace, store, prog, fired, delivered, thr, wobj>>

----------------------------------------------------------------------------
(* wait_cbfunc and op_cbfunc, on the progress context *)

\* Variant: no reply is delivered while a caller waits in PMIx_Fence.
Recv_StalledByWaiter(Replies, Ooms) ==
    /\ prog.pc = "idle"
    /\ \A t \in Threads : thr[t].pc # "wait"
    /\ \E r \in 1..Len(reqs), data \in Replies, oom \in Ooms :
          /\ reqs[r].state = "pending"
          /\ LET u == unpack_return(data, store, oom)
             IN /\ store' = u.store
                /\ prog' = [pc |-> "callback", cb |-> r, rc |-> u.rc, reply |-> data,
                            pre |-> store, ins |-> u.ins, used |-> u.used,
                            made |-> u.made, freed |-> u.freed]
                /\ delivered' = Append(delivered, [cb |-> r, rc |-> u.rc])
          /\ reqs' = [reqs EXCEPT ![r].state = "handling"]
    /\ UNCHANGED <<dir, gds, init_cntr, nspace, sent, last, fired, thr, wobj>>

\* wait_cbfunc up to the return of unpack_return: the transport delivers the
\* reply of pending request r.
Recv(Replies, Ooms) ==
    /\ prog.pc = "idle"
    /\ \E r \in 1..Len(reqs), data \in Replies, oom \in Ooms :
          /\ reqs[r].state = "pending"
          /\ LET u == unpack_return(data, store, oom)
             IN /\ store' = u.store
                /\ prog' = [pc |-> "callback", cb |-> r, rc |-> u.rc, reply |-> data,
                            pre |-> store, ins |-> u.ins, used |-> u.used,
                            made |-> u.made, freed |-> u.freed]
                /\ delivered' = Append(delivered, [cb |-> r, rc |-> u.rc])
          /\ reqs' = [reqs EXCEPT ![r].state = "handling"]
    /\ UNCHANGED <<dir, gds, init_cntr, nspace, sent, last, fired, thr, wobj>>

\* wait_cbfunc with no callback in the request: nothing to invoke.
CallbackNone ==
    /\ prog.pc = "callback"
    /\ reqs[prog.cb].cbfunc = NULL
    /\ prog' = [prog EXCEPT !.pc = "release"]
    /\ UNCHANGED <<dir, gds, init_cntr, nspace, reqs, sent, last, store, fired, delivered, thr, wobj>>

\* Variant: the callback is skipped when the reply did not decode to success.
CallbackUser_SkipOnError ==
    /\ prog.pc = "callback"
    /\ reqs[prog.cb].cbfunc = "user"
    /\ fired' = IF prog.rc = PMIX_SUCCESS
                THEN Append(fired, [cb |-> prog.cb, fn |-> "user",
                                    cbdata |-> reqs[prog.cb].cbdata, status |-> prog.rc])
                ELSE fired
    /\ prog' = [prog EXCEPT !.pc = "release"]
    /\ UNCHANGED <<dir, gds, init_cntr, nspace, reqs, sent, last, store, delivered, thr, wobj>>

\* Variant: the callback gets the cbdata of the newest request object.
CallbackUser_NewestCbdata ==
    /\ prog.pc = "callback"
    /\ reqs[prog.cb].cbfunc = "user"
    /\ fired' = Append(fired, [cb |-> prog.cb, fn |-> "user",
                               cbdata |-> reqs[Len(reqs)].cbdata, status |-> prog.rc])
    /\ prog' = [prog EXCEPT !.pc = "release"]
    /\ UNCHANGED <<dir, gds, init_cntr, nspace, reqs, sent, last, store, delivered, thr, wobj>>

\* wait_cbfunc invokes the caller's callback with rc and the request's cbdata.
CallbackUser ==
    /\ prog.pc = "callback"
    /\ reqs[prog.cb].cbfunc = "user"
    /\ fired' = Append(fired, [cb |-> prog.cb, fn |-> "user",
                               cbdata |-> reqs[prog.cb].cbdata, status |-> prog.rc])
    /\ prog' = [prog EXCEPT !.pc = "release"]
    /\ UNCHANGED <<dir, gds, init_cntr, nspace, reqs, sent, last, store, delivered, thr, wobj>>

\* Variant: the flag is cleared before the status is recorded.
op_cbfunc_FlagFirst(w, status, step) ==
    IF step = 1 THEN [w EXCEPT !.active = FALSE]
    ELSE [w EXCEPT !.status = status]

\* The two writes of op_cbfunc into the wait object, in program order.
op_cbfunc(w, status, step) ==
    IF step = 1 THEN [w EXCEPT !.status = status]
    ELSE [w EXCEPT !.active = FALSE]

\* wait_cbfunc invokes op_cbfunc: its first write.
OpCbFirst ==
    /\ prog.pc = "callback"
    /\ reqs[prog.cb].cbfunc = "op_cbfunc"
    /\ wobj' = [wobj EXCEPT ![reqs[prog.cb].cbdata] = op_cbfunc(@, prog.rc, 1)]
    /\ fired' = Append(fired, [cb |-> prog.cb, fn |-> "op_cbfunc",
                               cbdata |-> reqs[prog.cb].cbdata, status |-> prog.rc])
    /\ prog' = [prog EXCEPT !.pc = "op_cbfunc"]
    /\ UNCHANGED <<dir, gds, init_cntr, nspace, reqs, sent, last, store, delivered, thr>>

\* op_cbfunc: its second write, and the return to wait_cbfunc.
OpCbSecond ==
    /\ prog.pc = "op_cbfunc"
    /\ wobj' = [wobj EXCEPT ![reqs[prog.cb].cbdata] = op_cbfunc(@, prog.rc, 2)]
    /\ prog' = [prog EXCEPT !.pc = "release"]
    /\ UNCHANGED <<dir, gds, init_cntr, nspace, reqs, sent, last, store, fired, delivered, thr>>

\* wait_cbfunc: PMIX_RELEASE(cb).
Release ==
    /\ prog.pc = "release"
    /\ reqs' = [reqs EXCEPT ![prog.cb].state = "released"]
    /\ prog' = IdleProg
    /\ UNCHANGED <<dir, gds, init_cntr, nspace, sent, last, store, fired, delivered, thr, wobj>>

----------------------------------------------------------------------------
(* PMIx_Fence, on a caller thread *)

\* Variant: the caller waits whatever PMIx_Fence_nb returned.
FenceCall_WaitOnFailure(t, Args) ==
    /\ thr[t].pc = "idle"
    /\ last.n < MaxCalls
    /\ \E a \in Args :
          /\ FenceNbEffect(a, "op_cbfunc", t, 0, FALSE)
          /\ thr' = [thr EXCEPT ![t] = [pc |-> "wait", req |-> last'.req,
                                        rc |-> "UNSET", ret |-> "NONE"]]
          /\ wobj' = [wobj EXCEPT ![t] = [state |-> "live", active |-> TRUE,
                                          status |-> "UNSET"]]
    /\ UNCHANGED <<dir, gds, init_cntr, nspace, store, prog, fired, delivered>>

\* PMIx_Fence up to the wait: the wait object is created active and
\* PMIx_Fence_nb is called with op_cbfunc; on failure the object is released
\* and the error returned.
FenceCall(t, Args) ==
    /\ thr[t].pc = "idle"
    /\ last.n < MaxCalls
    /\ \E a \in Args :
          /\ FenceNbEffect(a, "op_cbfunc", t, 0, FALSE)
          /\ IF last'.rc # PMIX_SUCCESS
             THEN /\ thr' = [thr EXCEPT ![t] = [pc |-> "idle", req |-> 0, rc |-> "UNSET",
                                                 ret |-> last'.rc]]
                  /\ wobj' = [wobj EXCEPT ![t] = [state |-> "released", active |-> TRUE,
                                                   status |-> "UNSET"]]
             ELSE /\ thr' = [thr EXCEPT ![t] = [pc |-> "wait", req |-> last'.req,
                                                 rc |-> "UNSET", ret |-> "NONE"]]
                  /\ wobj' = [wobj EXCEPT ![t] = [state |-> "live", active |-> TRUE,
                                                   status |-> "UNSET"]]
    /\ UNCHANGED <<dir, gds, init_cntr, nspace, store, prog, fired, delivered>>

\* Variant: the wait ends although the flag is still set.
FenceWake_NoWait(t) ==
    /\ thr[t].pc = "wait"
    /\ thr' = [thr EXCEPT ![t].pc = "read"]
    /\ UNCHANGED <<dir, gds, init_cntr, nspace, reqs, sent, last, store, prog, fired, delivered, wobj>>

\* PMIX_WAIT_FOR_COMPLETION(cb->active): the loop ends once the flag is clear.
FenceWake(t) ==
    /\ thr[t].pc = "wait"
    /\ ~wobj[t].active
    /\ thr' = [thr EXCEPT ![t].pc = "read"]
    /\ UNCHANGED <<dir, gds, init_cntr, nspace, reqs, sent, last, store, prog, fired, delivered, wobj>>

\* rc = cb->status
FenceRead(t) ==
    /\ thr[t].pc = "read"
    /\ thr' = [thr EXCEPT ![t].pc = "free", ![t].rc = wobj[t].status]
    /\ UNCHANGED <<dir, gds, init_cntr, nspace, reqs, sent, last, store, prog, fired, delivered, wobj>>

\* PMIX_RELEASE(cb); return rc
FenceReturn(t) ==
    /\ thr[t].pc = "free"
    /\ wobj' = [wobj EXCEPT ![t].state = "released"]
    /\ thr' = [thr EXCEPT ![t].pc = "idle", ![t].ret = thr[t].rc]
    /\ UNCHANGED <<dir, gds, init_cntr, nspace, reqs, sent, last, store, prog, fired, delivered>>

----------------------------------------------------------------------------
(* pmix_gds_shmem_fetch *)

fence_vars == <<init_cntr, nspace, reqs, sent, last, store, prog, fired, delivered, thr, wobj>>

\* A write through a pointer to the stored object kv: its value is overwritten
\* in the list that holds it.
Scribble == StringValue("overwritten")
Poke(list, kv) ==
    [n \in DOMAIN list |-> IF list[n] = kv THEN [kv EXCEPT !.value = Scribble] ELSE list[n]]
PokeNodes(nodeinfos, kv) ==
    [n \in DOMAIN nodeinfos |->
        [nodeinfos[n] EXCEPT !.info = Poke(nodeinfos[n].info, kv)]]
PokeJob(job, kv) ==
    [job EXCEPT !.ht = [r \in DOMAIN job.ht |-> Poke(job.ht[r], kv)],
                !.jobinfo = Poke(job.jobinfo, kv),
                !.nodeinfo = PokeNodes(job.nodeinfo, kv),
                !.apps = [n \in DOMAIN job.apps |->
                             [job.apps[n] EXCEPT !.appinfo = Poke(job.apps[n].appinfo, kv),
                                                 !.nodeinfo = PokeNodes(job.apps[n].nodeinfo, kv)]]]

\* The fetch specification starts with one registered namespace, in a build
\* with or without assertions.
InitFetch ==
    /\ init_cntr = 1
    /\ nspace = NsShort
    /\ store = EmptyStore
    /\ InitCommon
    /\ dir = NoDir
    /\ gds \in { [registry |-> ("nsA" :> j), asserts |-> d, ff |-> a, asked |-> FALSE,
                  q |-> NoQuery, res |-> NoResult, mut |-> 0]
                 : j \in Jobs, d \in BOOLEAN, a \in FallbackAnswers }

\* A caller runs pmix_gds_shmem_fetch for query q.
Fetch ==
    /\ ~gds.asked
    /\ \E q \in Queries :
          LET r == pmix_gds_shmem_fetch(gds.registry, Me, q.proc, q.key, q.qualifiers,
                                        gds.ff, gds.asserts)
          IN gds' = [gds EXCEPT !.asked = TRUE, !.q = q, !.registry = r.registry,
                                !.res = Result(r.rc, r.kvs, r.log)]
    /\ UNCHANGED <<fence_vars, dir>>

\* The caller overwrites the value of result i, which is its own to change.
\* A result that is a stored object and not a copy changes in the store too.
Mutate ==
    /\ gds.asked
    /\ gds.res.rc # ABORTED
    /\ gds.mut = 0
    /\ \E i \in DOMAIN gds.res.kvs :
          gds' = [gds EXCEPT !.mut = i,
                             !.registry = IF gds.res.kvs[i].where = "copy" THEN gds.registry
                                          ELSE [ns \in DOMAIN gds.registry |->
                                                   PokeJob(gds.registry[ns], gds.res.kvs[i])]]
    /\ UNCHANGED <<fence_vars, dir>>

\* The caller is done with the results.
FetchReturn ==
    /\ gds.asked
    /\ gds.res.rc # ABORTED
    /\ gds' = [gds EXCEPT !.asked = FALSE, !.q = NoQuery, !.res = NoResult, !.mut = 0]
    /\ UNCHANGED <<fence_vars, dir>>

----------------------------------------------------------------------------
(* pmix_os_dirpath_destroy *)

\* The names a directory holds.
Children(fs, path) ==
    {n \in Names : Append(path, n) \in Paths /\ fs[Append(path, n)] # "none"}

\* pmix_os_dirpath_access(path, 0): the path exists and its mode has all the
\* owner's rights.
pmix_os_dirpath_access(fs, noperm, path) ==
    IF fs[path] = "none" THEN PMIX_ERR_NOT_FOUND
    ELSE IF path \in noperm THEN PMIX_ERR_NO_PERMISSIONS
    ELSE PMIX_SUCCESS

\* pmix_os_dirpath_is_empty(path): false for what opendir cannot open.
pmix_os_dirpath_is_empty(fs, path) ==
    fs[path] = "dir" /\ Children(fs, path) = {}

\* One activation of pmix_os_dirpath_destroy: its path, the entries readdir
\* has still to give, the entry at hand, and the position in the code.
Frame(path) ==
    [path |-> path, pending |-> {}, cur |-> "", is_dir |-> FALSE,
     exit_status |-> PMIX_SUCCESS, pc |-> "access"]

Event(op, path, ret) == [op |-> op, path |-> path, ret |-> ret]

Top == dir.stack[Len(dir.stack)]
SetTop(f) == [dir.stack EXCEPT ![Len(dir.stack)] = f]
At(pc) == dir.stack # <<>> /\ Top.pc = pc

\* The return of the activation on top with rc: to the caller of the
\* function, or to the activation that descended, which gives up on a failure.
Return(rc) ==
    IF Len(dir.stack) = 1 THEN <<>>
    ELSE LET parent == dir.stack[Len(dir.stack) - 1]
         IN SubSeq(dir.stack, 1, Len(dir.stack) - 2)
            \o <<IF rc # PMIX_SUCCESS
                  THEN [parent EXCEPT !.exit_status = rc, !.pc = "cleanup"]
                  ELSE [parent EXCEPT !.pc = "readdir"]>>
Returned2Caller(rc) == IF Len(dir.stack) = 1 THEN rc ELSE dir.ret

\* The specification starts with a tree, a callback and the recursive flag.
InitDestroy ==
    /\ init_cntr = 1
    /\ nspace = NsShort
    /\ store = EmptyStore
    /\ InitCommon
    /\ gds = NoStore
    /\ dir \in { [NoDir EXCEPT !.fs = fs, !.noperm = np, !.recursive = r, !.cb = cb]
                 : fs \in FileSystems, np \in {{}, {<<>>}}, r \in BOOLEAN, cb \in Callbacks }

\* pmix_os_dirpath_destroy(path, recursive, cbfunc) is called, with a null
\* path or with the directory.
DestroyCall ==
    /\ ~dir.called
    /\ \E null \in BOOLEAN :
          dir' = IF null THEN [dir EXCEPT !.called = TRUE, !.ret = PMIX_ERROR]
                 ELSE [dir EXCEPT !.called = TRUE, !.stack = <<Frame(<<>>)>>]
    /\ UNCHANGED <<fence_vars, gds>>

\* The access check of the directory.
DestroyAccess ==
    /\ At("access")
    /\ LET rc == pmix_os_dirpath_access(dir.fs, dir.noperm, Top.path)
       IN dir' = [dir EXCEPT !.stack =
                     SetTop(IF rc # PMIX_SUCCESS
                            THEN [Top EXCEPT !.exit_status = rc, !.pc = "cleanup"]
                            ELSE [Top EXCEPT !.pc = "opendir"])]
    /\ UNCHANGED <<fence_vars, gds>>

\* opendir: a failure returns at once, without the cleanup.
DestroyOpendir ==
    /\ At("opendir")
    /\ dir' = IF dir.fs[Top.path] = "dir"
              THEN [dir EXCEPT !.stack = SetTop([Top EXCEPT !.pending = Children(dir.fs, Top.path),
                                                            !.pc = "readdir"])]
              ELSE [dir EXCEPT !.stack = Return(PMIX_ERROR), !.ret = Returned2Caller(PMIX_ERROR)]
    /\ UNCHANGED <<fence_vars, gds>>

\* readdir: the next entry, in the order the file system gives them, or the
\* end of the directory.
DestroyReaddir ==
    /\ At("readdir")
    /\ \/ /\ Top.pending = {}
          /\ dir' = [dir EXCEPT !.stack = SetTop([Top EXCEPT !.pc = "cleanup"])]
       \/ \E n \in Top.pending :
             dir' = [dir EXCEPT !.stack = SetTop([Top EXCEPT !.pending = @ \ {n}, !.cur = n,
                                                            !.pc = "stat"])]
    /\ UNCHANGED <<fence_vars, gds>>

\* Variant: a directory that is not to be entered ends the loop.
DestroyStat_StopAtDir ==
    /\ At("stat")
    /\ LET filenm == Append(Top.path, Top.cur)
           is_dir == dir.fs[filenm] = "dir"
           ok     == Top.cur \in dir.cb.allow
       IN dir' =
            IF dir.fs[filenm] = "none"
            THEN [dir EXCEPT !.stack = SetTop([Top EXCEPT !.pc = "readdir"])]
            ELSE IF is_dir /\ ~dir.recursive
            THEN [dir EXCEPT !.log = Append(@, Event("skipdir", filenm, FALSE)),
                             !.stack = SetTop([Top EXCEPT !.exit_status = PMIX_ERROR,
                                                         !.pc = "cleanup"])]
            ELSE IF dir.cb.given
            THEN [dir EXCEPT !.log = Append(@, Event("cbfunc", filenm, ok)),
                             !.stack = SetTop([Top EXCEPT !.is_dir = is_dir,
                                                         !.pc = IF ok THEN "remove" ELSE "readdir"])]
            ELSE [dir EXCEPT !.stack = SetTop([Top EXCEPT !.is_dir = is_dir, !.pc = "remove"])]
    /\ UNCHANGED <<fence_vars, gds>>

\* stat of the entry, the check for a directory that is not to be entered,
\* and the callback.
DestroyStat ==
    /\ At("stat")
    /\ LET filenm == Append(Top.path, Top.cur)
           is_dir == dir.fs[filenm] = "dir"
           ok     == Top.cur \in dir.cb.allow
       IN dir' =
            IF dir.fs[filenm] = "none"
            THEN [dir EXCEPT !.stack = SetTop([Top EXCEPT !.pc = "readdir"])]
            ELSE IF is_dir /\ ~dir.recursive
            THEN [dir EXCEPT !.log = Append(@, Event("skipdir", filenm, FALSE)),
                             !.stack = SetTop([Top EXCEPT !.exit_status = PMIX_ERROR,
                                                         !.pc = "readdir"])]
            ELSE IF dir.cb.given
            THEN [dir EXCEPT !.log = Append(@, Event("cbfunc", filenm, ok)),
                             !.stack = SetTop([Top EXCEPT !.is_dir = is_dir,
                                                         !.pc = IF ok THEN "remove" ELSE "readdir"])]
            ELSE [dir EXCEPT !.stack = SetTop([Top EXCEPT !.is_dir = is_dir, !.pc = "remove"])]
    /\ UNCHANGED <<fence_vars, gds>>

\* The removal of the entry: a directory is descended into, a file unlinked.
DestroyRemove ==
    /\ At("remove")
    /\ LET filenm == Append(Top.path, Top.cur)
       IN dir' =
            IF Top.is_dir
            THEN [dir EXCEPT !.stack = SetTop([Top EXCEPT !.pc = "descended"])
                                         \o <<Frame(filenm)>>]
            ELSE IF dir.fs[filenm] = "file"
            THEN [dir EXCEPT !.fs[filenm] = "none",
                             !.log = Append(@, Event("unlink", filenm, FALSE)),
                             !.stack = SetTop([Top EXCEPT !.pc = "readdir"])]
            ELSE [dir EXCEPT !.stack = SetTop([Top EXCEPT !.exit_status = PMIX_ERROR,
                                                         !.pc = "readdir"])]
    /\ UNCHANGED <<fence_vars, gds>>

\* cleanup: the directory is removed when it is empty, and the function returns.
DestroyCleanup ==
    /\ At("cleanup")
    /\ LET empty == pmix_os_dirpath_is_empty(dir.fs, Top.path)
       IN dir' = [dir EXCEPT !.fs = IF empty THEN [@ EXCEPT ![Top.path] = "none"] ELSE @,
                             !.log = IF empty THEN Append(@, Event("rmdir", Top.path, FALSE))
                                     ELSE @,
                             !.stack = Return(Top.exit_status),
                             !.ret = Returned2Caller(Top.exit_status)]
    /\ UNCHANGED <<fence_vars, gds>>

\* Another process removes a file or an empty directory of the tree while the
\* call is at work.
OtherRemoves ==
    /\ dir.stack # <<>>
    /\ dir.others < MaxOthers
    /\ \E q \in Paths :
          /\ q # <<>>
          /\ dir.fs[q] = "file" \/ pmix_os_dirpath_is_empty(dir.fs, q)
          /\ dir' = [dir EXCEPT !.fs[q] = "none", !.others = @ + 1,
                                !.log = Append(@, Event("other", q, FALSE))]
    /\ UNCHANGED <<fence_vars, gds>>

----------------------------------------------------------------------------
(* Specifications *)

\* The protocol: concurrent PMIx_Fence and PMIx_Fence_nb callers and the
\* progress context, with replies of at most one blob.
Next ==
    \/ FenceNb(PlainArgs(nspace), NoPackFailure, MaxCalls)
    \/ \E t \in Threads : FenceCall(t, PlainArgs(nspace))
    \/ \E t \in Threads : FenceWake(t)
    \/ \E t \in Threads : FenceRead(t)
    \/ \E t \in Threads : FenceReturn(t)
    \/ Recv(SmallReplies, NoOom)
    \/ CallbackNone
    \/ CallbackUser
    \/ OpCbFirst
    \/ OpCbSecond
    \/ Release

Spec == Init /\ [][Next]_vars

\* The steps of the progress context: the event loop delivers the replies
\* that arrived and runs wait_cbfunc to its end.
ProgressStep ==
    \/ Recv(SmallReplies, NoOom)
    \/ CallbackNone
    \/ CallbackUser
    \/ OpCbFirst
    \/ OpCbSecond
    \/ Release

\* The protocol with a progress context that keeps running and a server that
\* answers every request.
SpecLive == Init /\ [][Next]_vars /\ WF_vars(ProgressStep)

\* The protocol with blocking fences that PMIx_Fence_nb may reject.
NextRelease ==
    \/ FenceNb(PlainArgs(nspace), NoPackFailure, MaxCalls)
    \/ \E t \in Threads : FenceCall(t, FenceArgs(nspace))
    \/ \E t \in Threads : FenceWake(t)
    \/ \E t \in Threads : FenceRead(t)
    \/ \E t \in Threads : FenceReturn(t)
    \/ Recv(SmallReplies, NoOom)
    \/ CallbackNone
    \/ CallbackUser
    \/ OpCbFirst
    \/ OpCbSecond
    \/ Release

SpecRelease == Init /\ [][NextRelease]_vars

\* The blocking fences with a progress context that keeps running and a
\* server that answers every request.
SpecBlocking == Init /\ [][NextRelease]_vars /\ WF_vars(ProgressStep)

\* The calls: every argument list and every pack failure, with replies that
\* carry no blob.
NextCall ==
    \/ FenceNb(CallArgs(nspace), PackFailures, MaxCalls)
    \/ Recv(StatusReplies, NoOom)
    \/ CallbackNone
    \/ CallbackUser
    \/ Release

SpecCall == InitCall /\ [][NextCall]_vars

\* Ingestion: PMIx_Fence_nb callers and the progress context, with every
\* reply of up to MaxBlobs blobs of up to MaxItems items.
NextIngest ==
    \/ FenceNb(IngestArgs(nspace), NoPackFailure, MaxIngests)
    \/ Recv(AllReplies, OomPoints)
    \/ CallbackUser
    \/ Release

SpecIngest == InitIngest /\ [][NextIngest]_vars

\* The fetches: every query against every job.
NextFetch ==
    \/ Fetch
    \/ Mutate
    \/ FetchReturn

SpecFetch == InitFetch /\ [][NextFetch]_vars

\* One call of pmix_os_dirpath_destroy, with another process at work in the tree.
NextDestroy ==
    \/ DestroyCall
    \/ DestroyAccess
    \/ DestroyOpendir
    \/ DestroyReaddir
    \/ DestroyStat
    \/ DestroyRemove
    \/ DestroyCleanup
    \/ OtherRemoves

SpecDestroy == InitDestroy /\ [][NextDestroy]_vars

----------------------------------------------------------------------------
(* Properties of the protocol (specification Spec) *)

NFired(r) == Cardinality({i \in DOMAIN fired : fired[i].cb = r})
NDelivered(r) == Cardinality({i \in DOMAIN delivered : delivered[i].cb = r})
HasCallback(d) == reqs[d.cb].cbfunc # NULL

\* C1: for every successful PMIx_Fence_nb whose reply is delivered, the
\* callback the caller gave is invoked exactly once, whatever the reply
\* decodes to, and the request object is released only after the invocation:
\* a pending request has no invocation, a request being handled has one
\* exactly from the invocation on, a released request has exactly one.
C1_CallbackExactlyOnce ==
    \A r \in DOMAIN reqs :
        /\ NFired(r) <= 1
        /\ NDelivered(r) <= 1
        /\ reqs[r].state = "pending" => NFired(r) = 0 /\ NDelivered(r) = 0
        /\ reqs[r].state # "pending" => NDelivered(r) = 1
        /\ (reqs[r].state = "handling" /\ reqs[r].cbfunc # NULL)
              => (NFired(r) = 1 <=> prog.pc \in {"op_cbfunc", "release"})
        /\ (reqs[r].state = "released" /\ reqs[r].cbfunc # NULL) => NFired(r) = 1

\* A request released after its callback fired once on a reply that failed to decode.
C1_Witness ==
    \E r \in DOMAIN reqs :
        /\ reqs[r].state = "released"
        /\ reqs[r].cbfunc = "user"
        /\ NFired(r) = 1
        /\ \E i \in DOMAIN delivered :
              delivered[i].cb = r /\ delivered[i].rc = PMIX_ERR_UNPACK_FAILURE

\* The status unpack_return gave for the reply of request q.
DeliveredRc(q) == delivered[CHOOSE i \in DOMAIN delivered : delivered[i].cb = q].rc

\* C2: blocking PMIx_Fence returns exactly the status its handler captured
\* from the reply: a caller is past the wait only after the reply of its own
\* request was handled, the flag is clear only once the status is recorded,
\* and what the caller reads and returns is that status, never an unset one.
C2_FenceReturnsHandlerStatus ==
    \A t \in Threads :
        LET q == thr[t].req IN
        /\ (wobj[t].state = "live" /\ ~wobj[t].active)
              => NDelivered(q) = 1 /\ wobj[t].status = DeliveredRc(q)
        /\ thr[t].pc \in {"read", "free"} => NDelivered(q) = 1
        /\ thr[t].pc = "free" => thr[t].rc = DeliveredRc(q)
        /\ (thr[t].pc = "idle" /\ q # 0)
              => NDelivered(q) = 1 /\ thr[t].ret = DeliveredRc(q)
        /\ thr[t].ret # "UNSET"

\* A blocking fence that returned the failure status of its reply.
C2_Witness ==
    \E t \in Threads :
        /\ thr[t].pc = "idle"
        /\ thr[t].req # 0
        /\ thr[t].ret = "PMIX_ERR_TIMEOUT"
        /\ wobj[t].state = "released"

\* The delivered replies of requests that have a callback.
DeliveredWithCallback == SelectSeq(delivered, HasCallback)

\* C4: several PMIx_Fence_nb requests are outstanding at once, each with its
\* own request object; the callbacks fire in the order in which the replies
\* are delivered, and each gets the cbdata its own call passed and the status
\* of its own reply.
C4_CallbacksInReplyOrder ==
    /\ Len(reqs) = Len(sent)
    /\ \A r \in DOMAIN sent : sent[r].cb = r
    /\ Len(fired) <= Len(DeliveredWithCallback)
    /\ Len(DeliveredWithCallback) <= Len(fired) + 1
    /\ \A i \in DOMAIN fired :
          /\ fired[i].cb = DeliveredWithCallback[i].cb
          /\ fired[i].status = DeliveredWithCallback[i].rc
          /\ fired[i].fn = sent[fired[i].cb].args.cbfunc
          /\ fired[i].cbdata = sent[fired[i].cb].args.cbdata

\* Two requests outstanding together, answered in the reverse order of the
\* calls, with different cbdata and different statuses.
C4_Witness ==
    /\ Len(fired) = 2
    /\ fired[1].cb = 2
    /\ fired[2].cb = 1
    /\ fired[1].cbdata # fired[2].cbdata
    /\ fired[1].status # fired[2].status

----------------------------------------------------------------------------
(* Properties of the calls (specification SpecCall) *)

Rejected(a) == init_cntr <= 0 \/ (a.procs = NullProcs /\ a.nprocs # 0)

\* C5: a rejected PMIx_Fence_nb has no effect: without initialisation it
\* returns PMIX_ERR_INIT (checked first), with procs NULL and nprocs # 0 it
\* returns PMIX_ERR_BAD_PARAM; no request object is created, nothing is handed
\* to the transport, and no callback ever fires for a rejected call.
C5_RejectedCallNoEffect ==
    /\ [][(last'.n # last.n /\ Rejected(last'.args))
            => /\ last'.rc = IF init_cntr <= 0 THEN PMIX_ERR_INIT ELSE PMIX_ERR_BAD_PARAM
               /\ last'.req = 0
               /\ UNCHANGED <<reqs, sent, fired, delivered, store, prog>>]_vars
    /\ [](\A i \in DOMAIN fired :
             fired[i].cb \in DOMAIN sent /\ ~Rejected(sent[fired[i].cb].args))

\* A call rejected for its arguments while an earlier request is outstanding.
C5_Witness ==
    /\ last.n = 2
    /\ last.args.procs = NullProcs
    /\ last.args.nprocs = 1
    /\ last.rc = PMIX_ERR_BAD_PARAM
    /\ Len(sent) = 1
    /\ Len(reqs) = 1

\* C6: for every collect_data, PMIx_Fence_nb(NULL, 0) and
\* PMIx_Fence_nb([{own namespace, WILDCARD}], 1) hand identical requests to
\* the transport.
C6_NullEqualsOwnWildcard ==
    \A i, j \in DOMAIN sent :
        (/\ sent[i].args.procs = NullProcs
         /\ sent[i].args.nprocs = 0
         /\ sent[j].args.procs = ProcArray(<<[nspace |-> Field(nspace), rank |-> PMIX_RANK_WILDCARD]>>)
         /\ sent[j].args.nprocs = 1
         /\ sent[i].args.collect_data = sent[j].args.collect_data)
        => sent[i].msg = sent[j].msg

\* The layout of one posted request: the command, the number of procs, that
\* many procs as the caller gave them (or the own namespace with the wildcard
\* rank), and one integer.
LayoutOk(e) ==
    LET m == e.msg
        a == e.args
        n == IF a.procs = NullProcs THEN 1 ELSE a.nprocs
    IN /\ Len(m) = n + 3
       /\ m[1] = [t |-> "CMD", v |-> PMIX_FENCENB_CMD]
       /\ m[2] = [t |-> "SIZE", v |-> n]
       /\ \A k \in 1..n :
             /\ m[2 + k].t = "PROC"
             /\ IF a.procs = NullProcs
                THEN /\ m[2 + k].v.rank = PMIX_RANK_WILDCARD
                     /\ m[2 + k].v.nspace.id = nspace.id
                ELSE /\ m[2 + k].v.rank = a.procs.arr[k].rank
                     /\ m[2 + k].v.nspace = [id |-> a.procs.arr[k].nspace.id,
                                             len |-> a.procs.arr[k].nspace.len,
                                             over |-> FALSE]
       /\ m[n + 3].t = "INT"

\* C7 as stated: every posted request has the layout and its last field, the
\* collect_data flag, is 0 or 1.
C7_FlagIsZeroOrOne ==
    \A i \in DOMAIN sent :
        LayoutOk(sent[i]) /\ sent[i].msg[Len(sent[i].msg)].v \in {0, 1}

\* C7 amended: every posted request has the layout and its last field is the
\* collect_data argument as the caller passed it; a call whose packing fails
\* returns the pack error, posts nothing and creates no request object.
C7_RequestLayout ==
    /\ [](\A i \in DOMAIN sent :
             LayoutOk(sent[i]) /\ sent[i].msg[Len(sent[i].msg)].v = sent[i].args.collect_data)
    /\ []((last.pfail # 0 /\ ~Rejected(last.args))
             => last.rc = PMIX_ERR_OUT_OF_RESOURCE /\ last.req = 0)
    /\ [][(last'.n # last.n /\ last'.rc # PMIX_SUCCESS) => UNCHANGED <<reqs, sent>>]_vars

\* A request with one proc and collect_data = 2 was posted, and the next call
\* failed while packing its procs.
C7_Witness ==
    /\ Len(sent) = 1
    /\ sent[1].args.procs # NullProcs
    /\ sent[1].args.nprocs = 1
    /\ sent[1].args.collect_data = 2
    /\ last.n = 2
    /\ last.pfail = 3
    /\ last.rc = PMIX_ERR_OUT_OF_RESOURCE

\* C32: every posted request carries at least one proc: the number packed is
\* at least 1 for every argument list PMIx_Fence_nb accepts, and a call with
\* no procs (nprocs = 0, the array null or not) posts the single entry of the
\* own namespace with the wildcard rank.
C32_AtLeastOneProc ==
    \A i \in DOMAIN sent :
        LET m == sent[i].msg
        IN /\ m[2].t = "SIZE"
           /\ m[2].v >= 1
           /\ sent[i].args.nprocs = 0
                 => /\ Len(m) = 4
                    /\ m[2].v = 1
                    /\ m[3].t = "PROC"
                    /\ m[3].v.rank = PMIX_RANK_WILDCARD
                    /\ m[3].v.nspace.id = nspace.id

----------------------------------------------------------------------------
(* Properties of the ingestion (specification SpecIngest) *)

\* The blobs of the reply the progress context is handling.
ReplyBlobs == [i \in 1..(Len(prog.reply) - 2) |-> prog.reply[2 + i].v]
BlobProc(i) == <<ReplyBlobs[i].nspace, ReplyBlobs[i].rank>>

\* unpack_return got as far as the loop over the blobs.
Ingested == prog.pc # "idle" /\ prog.used > 2

\* The items of a blob in front of its first undecodable item.
RECURSIVE DecodablePrefix(_)
DecodablePrefix(items) ==
    IF items = <<>> \/ Head(items) = BAD THEN <<>>
    ELSE <<Head(items)>> \o DecodablePrefix(Tail(items))

HasBad(items) == \E k \in DOMAIN items : items[k] = BAD

Kps(seq) == [k \in DOMAIN seq |-> seq[k].kp]

\* The inserts the pass attempted for blob i, and those that succeeded for proc p.
InsOf(i) == LET mine(e) == e.blob = i IN SelectSeq(prog.ins, mine)
InsertedAt(p) == LET at(e) == e.ok /\ BlobProc(e.blob) = p IN Kps(SelectSeq(prog.ins, at))

Holds(seq, kp) == \E k \in DOMAIN seq : seq[k] = kp
IsPrefix(a, b) == Len(a) <= Len(b) /\ \A k \in DOMAIN a : a[k] = b[k]

\* What the store must hold once the reply was handled: nothing new when the
\* blobs were not reached; otherwise, per blob, an insert was attempted for
\* exactly the items in front of its first undecodable item, and each proc got
\* the successful inserts of its own blobs, in order, behind what it held.
StoreMatchesReply ==
    IF ~Ingested THEN store = prog.pre /\ prog.ins = <<>>
    ELSE /\ \A i \in DOMAIN ReplyBlobs : Kps(InsOf(i)) = DecodablePrefix(ReplyBlobs[i].items)
         /\ \A p \in StoreProcs : store[p] = prog.pre[p] \o InsertedAt(p)

C8_FailureStatusSkipsIngestion ==
    (prog.pc # "idle" /\ Len(prog.reply) >= 1 /\ prog.reply[1].t = "INT"
       /\ prog.reply[1].v # PMIX_SUCCESS)
        => /\ prog.used = 1
           /\ prog.ins = <<>>
           /\ store = prog.pre
           /\ prog.rc = prog.reply[1].v
           /\ prog.pc = "release"
                 => /\ Len(fired) >= 1
                    /\ fired[Len(fired)].cb = prog.cb
                    /\ fired[Len(fired)].status = prog.reply[1].v

\* A reply with a failure status in front of a blob that holds an attribute:
\* the callback got the status and the store is unchanged.
C8_Witness ==
    /\ prog.pc = "release"
    /\ Len(prog.reply) = 3
    /\ prog.reply[1].v = "PMIX_ERR_TIMEOUT"
    /\ prog.reply[3].v.items = <<[k |-> "k1", v |-> 1]>>
    /\ fired[Len(fired)].status = "PMIX_ERR_TIMEOUT"
    /\ store = prog.pre

\* The successful inserts of key for blob i.
InsertedKey(i, key) ==
    LET hit(e) == e.blob = i /\ e.ok /\ e.kp.k = key IN Kps(SelectSeq(prog.ins, hit))

\* C9: every decoded attribute is inserted under the (namespace, rank) of its
\* own blob: each proc gets the inserts of its own blobs only, and for two
\* blobs of different ranks that hold the same key, a fetch of the key for
\* either rank returns the value of that rank's blob (the first the blob
\* holds, when the rank held none before).
C9_StoredUnderOwnBlob ==
    Ingested =>
        /\ StoreMatchesReply
        /\ \A i \in DOMAIN ReplyBlobs : \A key \in {"k1", "k2"} :
              (/\ InsertedKey(i, key) # <<>>
               /\ fetch(prog.pre, BlobProc(i), key) = <<>>
               /\ \A j \in 1..(i - 1) : BlobProc(j) = BlobProc(i) => InsertedKey(j, key) = <<>>)
                  => fetch(store, BlobProc(i), key) = <<InsertedKey(i, key)[1]>>

\* Two blobs for ranks 0 and 1 hold k1 with the values 1 and 2: the fetches
\* return 1 for rank 0 and 2 for rank 1.
C9_Witness ==
    /\ prog.pc = "release"
    /\ Len(prog.reply) = 4
    /\ BlobProc(1) = <<"nsA", 0>>
    /\ BlobProc(2) = <<"nsA", 1>>
    /\ ReplyBlobs[1].items = <<[k |-> "k1", v |-> 1]>>
    /\ ReplyBlobs[2].items = <<[k |-> "k1", v |-> 2]>>
    /\ fetch(store, <<"nsA", 0>>, "k1") = <<[k |-> "k1", v |-> 1]>>
    /\ fetch(store, <<"nsA", 1>>, "k1") = <<[k |-> "k1", v |-> 2]>>

\* C10: a blob that fails to decode is abandoned alone: for every blob behind
\* it an insert is still attempted for each item in front of that blob's own
\* first undecodable item, the items of the failing blob in front of the
\* error were attempted too, every successful insert is in the store, and
\* what the store held before stays.
C10_DecodeErrorAbandonsOneBlob ==
    Ingested =>
        \A i \in DOMAIN ReplyBlobs :
            (\E j \in 1..i : HasBad(ReplyBlobs[j].items))
                => /\ Kps(InsOf(i)) = DecodablePrefix(ReplyBlobs[i].items)
                   /\ \A k \in DOMAIN InsOf(i) :
                         InsOf(i)[k].ok => Holds(store[BlobProc(i)], InsOf(i)[k].kp)
                   /\ \A p \in StoreProcs : IsPrefix(prog.pre[p], store[p])

\* The first blob fails behind its first item; that item and the item of the
\* second blob are both in the store.
C10_Witness ==
    /\ prog.pc = "release"
    /\ Len(prog.reply) = 4
    /\ ReplyBlobs[1].items = <<[k |-> "k1", v |-> 1], BAD>>
    /\ ReplyBlobs[2].items = <<[k |-> "k1", v |-> 2]>>
    /\ BlobProc(1) = <<"nsA", 0>>
    /\ BlobProc(2) = <<"nsB", 0>>
    /\ prog.pre = EmptyStore
    /\ store[<<"nsA", 0>>] = <<[k |-> "k1", v |-> 1]>>
    /\ store[<<"nsB", 0>>] = <<[k |-> "k1", v |-> 2]>>

\* The status the callback of the reply in hand received.
CallbackStatus == fired[Len(fired)].status

\* Blob i decoded to its end and held at least one attribute.
CleanBlob(i) == ReplyBlobs[i].items # <<>> /\ ~HasBad(ReplyBlobs[i].items)

\* C11: when a blob fails to decode behind a blob that was ingested
\* completely, the callback receives success.
C11_LaterDecodeErrorNotPropagated ==
    (prog.pc = "release" /\ Ingested /\ Len(fired) >= 1
       /\ \E i \in DOMAIN ReplyBlobs :
             /\ HasBad(ReplyBlobs[i].items)
             /\ \E j \in 1..(i - 1) : CleanBlob(j))
        => CallbackStatus = PMIX_SUCCESS

\* C12: when the first item of the first blob fails to decode, so that
\* nothing was stored before the failure, the callback receives the decode
\* error whatever the later blobs hold.
C12_FirstDecodeErrorPropagates ==
    (prog.pc = "release" /\ Ingested /\ Len(fired) >= 1
       /\ ReplyBlobs[1].items # <<>> /\ ReplyBlobs[1].items[1] = BAD)
        => CallbackStatus = PMIX_ERR_UNPACK_FAILURE

\* C34: when unpack_return has returned, every transient object it created
\* for the reply (the array of blobs, each blob's buffer view with its byte
\* region, each kval) has been released, whatever status it returned.
C34_TransientsReleased ==
    prog.pc # "idle" => prog.made \subseteq prog.freed

\* C35: when an insert of the pass fails for lack of memory, no attribute of
\* the reply is inserted after it and the store holds nothing of the reply.
C35_FailedInsertUnwinds ==
    (prog.pc # "idle" /\ \E n \in DOMAIN prog.ins : ~prog.ins[n].ok)
        => /\ \A n, m \in DOMAIN prog.ins : (~prog.ins[n].ok /\ n < m) => ~prog.ins[m].ok
           /\ store = prog.pre

----------------------------------------------------------------------------
(* Properties of the suspended caller (specification SpecLive) *)

Waiting(t) == thr[t].pc = "wait"
Pending(r) == r \in DOMAIN reqs /\ reqs[r].state = "pending"
Released(r) == r \in DOMAIN reqs /\ reqs[r].state = "released"

----------------------------------------------------------------------------
(* Properties of the objects' lifetimes (specification SpecRelease) *)

\* The wait object the request in hand completes, when it is a blocking fence's.
HandlerWaiter == reqs[prog.cb].cbdata
HandlerWrites == prog.pc \in {"callback", "op_cbfunc"} /\ reqs[prog.cb].cbfunc = "op_cbfunc"

\* C14: no request object is used after its release and each is released
\* once.  The handler holds a request exactly from the delivery of its reply
\* to its release, and a released request never changes again; a caller reads
\* its wait object only while it is live, and has released it whenever it is
\* outside PMIx_Fence (also when PMIx_Fence_nb failed); a wait object becomes
\* released only from live, or at once when PMIx_Fence_nb failed; while the
\* handler still has a write of status or flag to do the wait object is live
\* and its caller is still waiting; nothing but a new PMIx_Fence of the
\* same caller touches a released wait object.
C14_ReleasedOnceNoUseAfter ==
    /\ [](/\ \A r \in DOMAIN reqs :
                reqs[r].state = "handling" <=> (prog.pc # "idle" /\ prog.cb = r)
          /\ \A t \in Threads :
                /\ thr[t].pc \in {"wait", "read", "free"} => wobj[t].state = "live"
                /\ thr[t].pc = "idle" => wobj[t].state # "live"
          /\ HandlerWrites
                => /\ wobj[HandlerWaiter].state = "live"
                   /\ thr[HandlerWaiter].pc = "wait"
                   /\ thr[HandlerWaiter].req = prog.cb)
    /\ [][/\ \A r \in DOMAIN reqs : reqs[r].state = "released" => reqs'[r] = reqs[r]
          /\ \A t \in Threads :
                /\ (wobj[t].state = "released" /\ wobj'[t] # wobj[t])
                      => thr[t].pc = "idle" /\ last'.n = last.n + 1
                /\ (wobj[t].state # "released" /\ wobj'[t].state = "released")
                      => \/ wobj[t].state = "live" /\ thr[t].pc = "free"
                         \/ thr[t].pc = "idle" /\ last'.rc # PMIX_SUCCESS]_vars

\* One caller's fence was rejected and its wait object released at once,
\* another caller's fence completed with a failure status and released its
\* wait object after the handler had released the request.
C14_Witness ==
    \E t, u \in Threads :
        /\ t # u
        /\ thr[t].pc = "idle" /\ thr[t].ret = PMIX_ERR_BAD_PARAM
        /\ wobj[t].state = "released"
        /\ thr[u].pc = "idle" /\ thr[u].ret = "PMIX_ERR_TIMEOUT"
        /\ wobj[u].state = "released"
        /\ Len(reqs) = 1 /\ reqs[1].state = "released"

----------------------------------------------------------------------------
(* Properties of the blocking fence (specification SpecBlocking) *)

\* The reply of the request caller t waits for was delivered and op_cbfunc
\* has run for it to its end.
Completed(t) ==
    /\ thr[t].req \in DOMAIN reqs
    /\ reqs[thr[t].req].state # "pending"
    /\ ~wobj[t].active

\* C33: PMIx_Fence ends in two ways only.  When PMIx_Fence_nb fails the
\* caller returns that status in the same step, without waiting; otherwise
\* the caller leaves the wait only once the reply of its own request was
\* delivered and handled, and is past the wait only then; with replies
\* delivered and the progress context running that comes about for every
\* waiting caller; and no other step ends a wait.
C33_FenceEndsOnFailureOrReply ==
    /\ [][\A t \in Threads :
            /\ (thr[t].pc = "idle" /\ thr'[t] # thr[t])
                  => IF last'.rc # PMIX_SUCCESS
                     THEN thr'[t].pc = "idle" /\ thr'[t].ret = last'.rc
                     ELSE /\ thr'[t].pc = "wait"
                          /\ thr'[t].req \in DOMAIN reqs'
                          /\ reqs'[thr'[t].req].state = "pending"
            /\ (thr[t].pc = "wait" /\ thr'[t].pc # "wait")
                  => Completed(t) /\ thr'[t].pc = "read"]_vars
    /\ [](\A t \in Threads : thr[t].pc \in {"read", "free"} => Completed(t))
    /\ \A t \in Threads : Waiting(t) ~> Completed(t)

\* One caller's fence was rejected and returned at once while the other
\* caller was still waiting for its reply, which has not been delivered.
C33_Witness ==
    \E t, u \in Threads :
        /\ t # u
        /\ thr[t].pc = "idle" /\ thr[t].ret = PMIX_ERR_BAD_PARAM
        /\ Waiting(u) /\ Pending(thr[u].req) /\ wobj[u].active

----------------------------------------------------------------------------
(* Properties of the fetch (specification SpecFetch) *)

\* The query a fetch has answered, its parts and the job it was asked about.
Asked == gds.asked
Registered == gds.q.proc.nspace \in DOMAIN gds.registry
QRank == gds.q.proc.rank
QKey == gds.q.key
QQual == gds.q.qualifiers
QJob == gds.registry[gds.q.proc.nspace]

HasQualifier(key) == \E n \in DOMAIN QQual : QQual[n].key = key
\* The flag of the last qualifier with this key.
LastFlag(key) ==
    LET at == {n \in DOMAIN QQual : QQual[n].key = key}
    IN QQual[CHOOSE n \in at : \A m \in at : m <= n].flag

FallbackOnly == <<Consulted("ffgds", 0)>>
LogHas(stage) == \E n \in DOMAIN gds.res.log : gds.res.log[n].stage = stage

\* C15: a fetch for a namespace without a job fails with the registry's
\* not-found status, consults no store, the fallback included, appends no
\* result and leaves the registry as it was.
C15_NoJobNoFallback ==
    [][(~gds.asked /\ gds'.asked /\ gds'.q.proc.nspace \notin DOMAIN gds.registry)
          => /\ gds'.res = Result(PMIX_ERR_NOT_FOUND, <<>>, <<>>)
             /\ gds'.registry = gds.registry]_vars

\* A key was asked of a namespace with no job while the fallback store holds
\* a value: the fetch failed and the namespace still has no job.
C15_Witness ==
    /\ Asked
    /\ gds.q.proc.nspace = "nsB"
    /\ QKey = "k1"
    /\ gds.ff.rc = PMIX_SUCCESS
    /\ gds.res.rc = PMIX_ERR_NOT_FOUND
    /\ DOMAIN gds.registry = {"nsA"}

\* C16: a fetch of a null key for the wildcard rank of a registered namespace
\* returns not-supported whatever the qualifiers, with no result and no store
\* consulted.
C16_ReservedIsNotSupported ==
    (Asked /\ Registered /\ QKey = NULL /\ QRank = PMIX_RANK_WILDCARD)
        => gds.res = Result(PMIX_ERR_NOT_SUPPORTED, <<>>, <<>>)

\* C17 as stated: whenever the qualifiers hold PMIX_SESSION_INFO the fetch
\* returns what the fallback store answers and consults nothing else.
C17_SessionAlwaysDelegates ==
    (Asked /\ HasQualifier(PMIX_SESSION_INFO))
        => gds.res = Result(gds.ff.rc, gds.ff.kvs, FallbackOnly)

\* C17 amended: on a registered namespace, and unless the key is null with
\* the wildcard rank, a fetch whose qualifiers hold PMIX_SESSION_INFO at any
\* position returns exactly the status and the results of the fallback store
\* and consults no local table or list.
C17_SessionDelegates ==
    (Asked /\ Registered /\ HasQualifier(PMIX_SESSION_INFO)
       /\ ~(QKey = NULL /\ QRank = PMIX_RANK_WILDCARD))
        => gds.res = Result(gds.ff.rc, gds.ff.kvs, FallbackOnly)

\* PMIX_SESSION_INFO stands behind a set PMIX_NODE_INFO for a hostname the
\* local node list holds: the result is the fallback's miss.
C17_Witness ==
    /\ Asked
    /\ QRank = PMIX_RANK_UNDEF
    /\ QKey = PMIX_HOSTNAME
    /\ Len(QQual) = 2
    /\ QQual[1].key = PMIX_NODE_INFO /\ QQual[1].flag
    /\ QQual[2].key = PMIX_SESSION_INFO
    /\ QJob.nodeinfo = <<NodeA>>
    /\ gds.ff.rc = PMIX_ERR_NOT_FOUND
    /\ gds.res = Result(PMIX_ERR_NOT_FOUND, <<>>, FallbackOnly)

\* What the node-info path gives for the query, on the job's node list.
NodePath ==
    pmix_gds_shmem_fetch_nodeinfo(QKey, QJob, QJob.nodeinfo, QQual, Me.hostname, gds.asserts)
NodeOnly == <<Consulted("nodeinfo", 0)>>

\* C18 as stated: a fetch of the hostname key with no PMIX_NODE_INFO
\* qualifier, for any proc of a registered namespace, returns what the
\* node-info path gives.
C18_HostnameAlwaysNodePath ==
    (Asked /\ Registered /\ QKey = PMIX_HOSTNAME /\ ~HasQualifier(PMIX_NODE_INFO))
        => gds.res = Result(NodePath.rc, NodePath.kvs, NodeOnly)

\* C18 amended: with no PMIX_NODE_INFO, PMIX_APP_INFO or PMIX_SESSION_INFO
\* qualifier, a fetch of the hostname key for a rank that names no process
\* takes the node-info path first, from the key's name alone; its result is
\* returned when the path succeeds or the rank is PMIX_RANK_UNDEF.  For a
\* concrete rank the node-info path is not taken.
C18_HostnameNodePath ==
    (Asked /\ Registered /\ QKey = PMIX_HOSTNAME /\ ~HasQualifier(PMIX_NODE_INFO)
       /\ ~HasQualifier(PMIX_APP_INFO) /\ ~HasQualifier(PMIX_SESSION_INFO))
        => IF PMIX_RANK_IS_VALID(QRank) THEN ~LogHas("nodeinfo")
           ELSE /\ gds.res.log[1] = Consulted("nodeinfo", 0)
                /\ (NodePath.rc = PMIX_SUCCESS \/ QRank = PMIX_RANK_UNDEF)
                      => gds.res = Result(NodePath.rc, NodePath.kvs, NodeOnly)

\* The hostname was asked for the wildcard rank with no qualifier; the ranks
\* hold another hostname than the local node, and the node's was returned.
C18_Witness ==
    /\ Asked
    /\ QRank = PMIX_RANK_WILDCARD
    /\ QKey = PMIX_HOSTNAME
    /\ QQual = <<>>
    /\ QJob.nodeinfo = <<NodeB, NodeA>>
    /\ QJob.ht[0] # <<>>
    /\ gds.res = Result(PMIX_SUCCESS,
                        <<Kval(PMIX_HOSTNAME, StringValue("h1"), "copy")>>, NodeOnly)

\* What decides the path of a fetch that reached the rank check: the last
\* PMIX_NODE_INFO and PMIX_APP_INFO qualifiers, and with neither the key's
\* name.  Where both are requested the node-info path is the one tried.
NodeRequested ==
    IF HasQualifier(PMIX_NODE_INFO) THEN LastFlag(PMIX_NODE_INFO)
    ELSE ~HasQualifier(PMIX_APP_INFO) /\ QKey \in {PMIX_HOSTNAME, PMIX_NODEID}
AppRequested ==
    /\ ~NodeRequested
    /\ IF HasQualifier(PMIX_APP_INFO) THEN LastFlag(PMIX_APP_INFO)
       ELSE ~HasQualifier(PMIX_NODE_INFO) /\ QKey \in {PMIX_APP_SIZE}

\* What the app-info path gives for the query, on the job's app list.
AppPath ==
    pmix_gds_shmem_fetch_appinfo(QKey, QJob, QJob.apps, QQual, Me, gds.asserts)
AppOnly == <<Consulted("appinfo", 0)>>

\* The generic search for the wildcard rank: the rank's own table entry, and
\* the fallback store when that misses.
GenericSearch ==
    LET direct == pmix_hash2_fetch(QJob.ht, QRank, QKey)
    IN IF direct.rc = PMIX_SUCCESS THEN direct
       ELSE Result(gds.ff.rc, direct.kvs \o gds.ff.kvs, direct.log \o FallbackOnly)

\* The fetch got as far as the rank check, for a rank that names no process.
PathCase ==
    /\ Asked /\ Registered
    /\ ~Reserved(gds.q.proc, QKey)
    /\ ~HasQualifier(PMIX_SESSION_INFO)
    /\ QRank \in {PMIX_RANK_WILDCARD, PMIX_RANK_UNDEF}

\* The result of the fetch is what path gave, and only stage was consulted.
PathResult(path, stage) == gds.res = Result(path.rc, path.kvs, stage)
\* The result of the fetch is that of the generic search, made after stage.
SearchResult(stage) ==
    gds.res = Result(GenericSearch.rc, GenericSearch.kvs, stage \o GenericSearch.log)

\* The caller's own node in the job's node list, as a sequence of at most one.
OwnNode ==
    LET own == {n \in DOMAIN QJob.nodeinfo : QJob.nodeinfo[n].hostname = Me.hostname}
    IN IF own = {} THEN <<>>
       ELSE <<QJob.nodeinfo[CHOOSE n \in own : \A m \in own : n <= m]>>

\* One copy of the first value a node holds under the key.
OneOfNode(node, key) ==
    /\ Len(gds.res.kvs) = 1
    /\ gds.res.kvs[1] = CopyOf(FirstKey(node.info, key)[1])

\* C19: for a node-requested (app-requested) fetch with rank WILDCARD or UNDEF,
\* a success of the node-info (app-info) path is returned with nothing else
\* consulted, and is exactly one result for a key of an existing node; a
\* failure of the path is followed by the generic search (direct lookup, then
\* fallback) for WILDCARD, and is returned as it is for UNDEF.
C19_PathThenGenericForWildcard ==
    /\ (PathCase /\ NodeRequested) =>
          /\ (NodePath.rc = PMIX_SUCCESS \/ QRank = PMIX_RANK_UNDEF)
                => PathResult(NodePath, NodeOnly)
          /\ (NodePath.rc # PMIX_SUCCESS /\ QRank = PMIX_RANK_WILDCARD)
                => SearchResult(NodeOnly)
          /\ (QRank = PMIX_RANK_WILDCARD /\ QQual = <<Qualifier(PMIX_NODE_INFO, TRUE, 0, "")>>
                /\ OwnNode # <<>> /\ FirstKey(OwnNode[1].info, QKey) # <<>>)
                => gds.res.rc = PMIX_SUCCESS /\ OneOfNode(OwnNode[1], QKey)
    /\ (PathCase /\ AppRequested) =>
          /\ (AppPath.rc = PMIX_SUCCESS \/ QRank = PMIX_RANK_UNDEF)
                => PathResult(AppPath, AppOnly)
          /\ (AppPath.rc # PMIX_SUCCESS /\ QRank = PMIX_RANK_WILDCARD)
                => SearchResult(AppOnly)

\* The app size was asked for the wildcard rank of a job with no app: the
\* app-info path missed and the value the wildcard rank holds was returned.
C19_Witness ==
    /\ PathCase /\ AppRequested
    /\ QRank = PMIX_RANK_WILDCARD
    /\ QKey = PMIX_APP_SIZE
    /\ QJob.apps = <<>>
    /\ AppPath.rc = PMIX_ERR_NOT_FOUND
    /\ gds.res = Result(PMIX_SUCCESS, <<Kval(PMIX_APP_SIZE, NumberValue(4), "copy")>>,
                        AppOnly \o <<Consulted("hash", PMIX_RANK_WILDCARD)>>)

\* The ranks of the job whose table entry holds the key asked for, and the
\* result of a scan that stopped at the lowest of them.
RankHolders ==
    {r \in 0..(QJob.nprocs - 1) : r \in DOMAIN QJob.ht /\ FirstKey(QJob.ht[r], QKey) # <<>>}
LowestHolder == CHOOSE r \in RankHolders : \A o \in RankHolders : r <= o
StoppedAtLowest ==
    gds.res = Result(PMIX_SUCCESS,
                     <<CopyOf(FirstKey(QJob.ht[LowestHolder], QKey)[1])>>,
                     [n \in 1..(LowestHolder + 1) |-> Consulted("hash", n - 1)])

\* C20 as stated: a fetch of a key for rank UNDEF, with no qualifier, returns
\* the value of the lowest rank that holds the key, with success, and consults
\* nothing behind that rank.
C20_UndefAlwaysScansRanks ==
    (Asked /\ Registered /\ QRank = PMIX_RANK_UNDEF /\ QKey # NULL /\ QQual = <<>>
       /\ RankHolders # {})
        => StoppedAtLowest

\* C20 amended: a fetch of a key for rank UNDEF that is neither node-requested
\* nor app-requested and has no PMIX_SESSION_INFO qualifier scans the ranks
\* 0..N-1 in increasing order and returns at the first rank that holds the
\* key: success, the value of the lowest holder, and no higher rank, job-level
\* list or fallback store consulted.
C20_UndefScanStopsAtFirstMatch ==
    (Asked /\ Registered /\ QRank = PMIX_RANK_UNDEF /\ QKey # NULL
       /\ ~HasQualifier(PMIX_SESSION_INFO) /\ ~NodeRequested /\ ~AppRequested
       /\ RankHolders # {})
        => StoppedAtLowest

\* Every rank holds k1, and so do the job-level list and the fallback store:
\* the value of rank 0 was returned and only rank 0 was looked at.
C20_Witness ==
    /\ Asked /\ Registered
    /\ QRank = PMIX_RANK_UNDEF
    /\ QKey = "k1"
    /\ QQual = <<>>
    /\ RankHolders = 0..(MaxRanks - 1)
    /\ QJob.jobinfo # <<>>
    /\ gds.ff.rc = PMIX_SUCCESS
    /\ gds.res = Result(PMIX_SUCCESS, <<Kval("k1", NumberValue(10), "copy")>>,
                        <<Consulted("hash", 0)>>)

\* A fetch of a key for rank UNDEF that got to the rank scan and found the
\* key under no rank.
UndefKeyMiss ==
    /\ Asked /\ Registered
    /\ QRank = PMIX_RANK_UNDEF /\ QKey # NULL
    /\ ~HasQualifier(PMIX_SESSION_INFO) /\ ~NodeRequested /\ ~AppRequested
    /\ RankHolders = {}

\* Every rank of the job looked at in increasing order, then the job-level list.
AllRanksLog == [n \in 1..QJob.nprocs |-> Consulted("hash", n - 1)]
JobLevelLog == <<Consulted("jobinfo", 0)>>

\* C21: when no rank holds the key of a fetch for rank UNDEF, the job-level
\* list is read before the fallback store; a key the job-level list holds is
\* returned with success as one copy without asking the fallback, and the
\* fallback is asked only when the job-level list does not hold the key.
C21_JobLevelBeforeFallback ==
    UndefKeyMiss
        => IF FirstKey(QJob.jobinfo, QKey) # <<>>
           THEN gds.res = Result(PMIX_SUCCESS, <<CopyOf(FirstKey(QJob.jobinfo, QKey)[1])>>,
                                 AllRanksLog \o JobLevelLog)
           ELSE gds.res = Result(gds.ff.rc, gds.ff.kvs,
                                 AllRanksLog \o JobLevelLog \o FallbackOnly)

\* A fetch of every key for rank UNDEF that got to the rank scan.
UndefSweep ==
    /\ Asked /\ Registered
    /\ QRank = PMIX_RANK_UNDEF /\ QKey = NULL
    /\ ~HasQualifier(PMIX_SESSION_INFO) /\ ~NodeRequested /\ ~AppRequested

\* A copy of every attribute of the ranks from rank r on, in rank order, and
\* of every job-level attribute.
RECURSIVE RankCopies(_)
RankCopies(r) ==
    IF r >= QJob.nprocs THEN <<>>
    ELSE (IF r \in DOMAIN QJob.ht THEN CopyAll(QJob.ht[r]) ELSE <<>>) \o RankCopies(r + 1)
JobCopies == CopyAll(QJob.jobinfo)

\* Every element of part is among the results of the fetch.
Returned(part) ==
    \A n \in DOMAIN part : \E m \in DOMAIN gds.res.kvs : gds.res.kvs[m] = part[n]

WildcardLog == <<Consulted("hash", PMIX_RANK_WILDCARD)>>

\* C22 as stated: the results of a fetch of every key for rank UNDEF hold a
\* copy of every attribute of every rank and of the job-level list, and what a
\* pass on the fallback store gave.
C22_SweepAlwaysAsksFallback ==
    (UndefSweep /\ QQual = <<>>)
        => /\ Returned(RankCopies(0)) /\ Returned(JobCopies)
           /\ LogHas("ffgds") /\ Returned(gds.ff.kvs)

\* C22 amended: the results of a fetch of every key for rank UNDEF are a copy
\* of every attribute of every rank 0..N-1, a copy of every job-level
\* attribute and the result of a wildcard pass on the per-rank table; the
\* fallback store's results are added only when that wildcard pass fails.
C22_SweepAggregates ==
    UndefSweep
        => IF PMIX_RANK_WILDCARD \in DOMAIN QJob.ht
           THEN /\ gds.res.kvs = RankCopies(0) \o JobCopies
                                   \o CopyAll(QJob.ht[PMIX_RANK_WILDCARD])
                /\ gds.res.log = AllRanksLog \o JobLevelLog \o WildcardLog
           ELSE /\ gds.res.kvs = RankCopies(0) \o JobCopies \o gds.ff.kvs
                /\ gds.res.log = AllRanksLog \o JobLevelLog \o WildcardLog \o FallbackOnly

\* Every rank holds two attributes, the job-level list one and the wildcard
\* rank two: the sweep returned the seven, and did not ask the fallback store
\* that holds a value.
C22_Witness ==
    /\ UndefSweep
    /\ QQual = <<>>
    /\ Len(RankCopies(0)) = 2 * MaxRanks
    /\ Len(JobCopies) = 1
    /\ gds.ff.rc = PMIX_SUCCESS
    /\ Len(gds.res.kvs) = 2 * MaxRanks + 3
    /\ ~LogHas("ffgds")

\* C23: a fetch of every key for rank UNDEF that found an attribute under a
\* rank or in the job-level list returns success with what it found, also
\* when the wildcard pass and the fallback store report not-found.
C23_SweepPrefersFound ==
    (UndefSweep /\ RankCopies(0) \o JobCopies # <<>>)
        => /\ gds.res.rc = PMIX_SUCCESS
           /\ Returned(RankCopies(0)) /\ Returned(JobCopies)

\* A fetch that got to the rank check for a concrete rank, or for the wildcard
\* rank with neither node nor app info requested.
DirectCase ==
    /\ Asked /\ Registered
    /\ ~Reserved(gds.q.proc, QKey)
    /\ ~HasQualifier(PMIX_SESSION_INFO)
    /\ \/ PMIX_RANK_IS_VALID(QRank)
       \/ QRank = PMIX_RANK_WILDCARD /\ ~NodeRequested /\ ~AppRequested

\* The direct lookup of the rank asked for.
DirectLookup == pmix_hash2_fetch(QJob.ht, QRank, QKey)
DirectLog == <<Consulted("hash", QRank)>>

\* C24: for a concrete rank, and for the wildcard rank with no node or app
\* info requested, the fetch looks the rank up in the per-rank table; a hit
\* is returned without asking the fallback store, a miss is followed by one
\* call of the fallback store whose outcome is returned.  The node-info and
\* app-info paths are not consulted, whatever was requested.
C24_DirectLookupThenFallbackOnce ==
    DirectCase
        => /\ ~LogHas("nodeinfo") /\ ~LogHas("appinfo") /\ ~LogHas("jobinfo")
           /\ IF DirectLookup.rc = PMIX_SUCCESS
              THEN gds.res = Result(PMIX_SUCCESS, DirectLookup.kvs, DirectLog)
              ELSE gds.res = Result(gds.ff.rc, DirectLookup.kvs \o gds.ff.kvs,
                                    DirectLog \o FallbackOnly)

\* The hostname was asked for a concrete rank with PMIX_NODE_INFO set, on a
\* job whose node list holds the caller's node: the rank's own value was
\* returned, and neither the node list nor the fallback store was consulted.
C24_Witness ==
    /\ DirectCase
    /\ QRank = MaxRanks - 1
    /\ QKey = PMIX_HOSTNAME
    /\ QQual = <<Qualifier(PMIX_NODE_INFO, TRUE, 0, "")>>
    /\ QJob.nodeinfo = <<NodeA>>
    /\ gds.ff.rc = PMIX_SUCCESS
    /\ gds.res = Result(PMIX_SUCCESS, <<Kval(PMIX_HOSTNAME, StringValue("h2"), "copy")>>,
                        DirectLog)

\* A result, and every entry of a composite result, is the caller's own.
IsOwnCopy(kv) ==
    /\ kv.where = "copy"
    /\ \A n \in DOMAIN kv.value.darray : kv.value.darray[n].where = "copy"

\* C25: a fetch changes no table or list of the store and no registry entry,
\* and every value it returns is a copy: a fetch of every key of a registered
\* concrete rank returns a copy of each attribute stored for the rank, and
\* overwriting a returned value leaves the store, and so every later fetch,
\* as it was.
C25_ReadOnlyIndependentCopies ==
    /\ [][gds'.registry = gds.registry]_vars
    /\ [](Asked => \A n \in DOMAIN gds.res.kvs : IsOwnCopy(gds.res.kvs[n]))
    /\ []((Asked /\ Registered /\ PMIX_RANK_IS_VALID(QRank) /\ QKey = NULL
             /\ ~HasQualifier(PMIX_SESSION_INFO) /\ QJob.ht[QRank] # <<>>)
            => /\ gds.res.rc = PMIX_SUCCESS
               /\ Len(gds.res.kvs) = Len(QJob.ht[QRank])
               /\ \A n \in DOMAIN gds.res.kvs :
                     /\ gds.res.kvs[n].key = QJob.ht[QRank][n].key
                     /\ gds.res.kvs[n].value = QJob.ht[QRank][n].value)

\* Every key of a rank that holds two attributes was fetched and the caller
\* overwrote the second value it got: the rank's table entry is as before.
C25_Witness ==
    /\ Asked /\ Registered
    /\ QRank = MaxRanks - 1
    /\ QKey = NULL
    /\ Len(gds.res.kvs) = 2
    /\ gds.mut = 2
    /\ QJob.ht[QRank] = <<Kval("k1", NumberValue(10 + QRank), "ht"),
                          Kval(PMIX_HOSTNAME, StringValue("h2"), "ht")>>

\* The flags the PMIX_NODE_INFO and PMIX_APP_INFO qualifiers set, and the
\* path each combination of flags and key name stands for.
NodeFlag == HasQualifier(PMIX_NODE_INFO) /\ LastFlag(PMIX_NODE_INFO)
AppFlag == HasQualifier(PMIX_APP_INFO) /\ LastFlag(PMIX_APP_INFO)
FlagGiven == HasQualifier(PMIX_NODE_INFO) \/ HasQualifier(PMIX_APP_INFO)
ExpectedStage ==
    IF FlagGiven \/ QKey = NULL
    THEN (IF NodeFlag THEN "nodeinfo" ELSE IF AppFlag THEN "appinfo" ELSE "hash")
    ELSE (IF QKey \in {PMIX_HOSTNAME, PMIX_NODEID} THEN "nodeinfo"
          ELSE IF QKey \in {PMIX_APP_SIZE} THEN "appinfo"
          ELSE "hash")

\* C27: for a rank that names no process, the key's name decides between the
\* node-info path, the app-info path and the generic search only when a key
\* is given and no PMIX_NODE_INFO or PMIX_APP_INFO qualifier is; a qualifier
\* of either kind, also one set false, leaves the decision to the flags, and
\* with both flags set the node-info path is taken.
C27_ClassificationOnlyWithoutFlags ==
    PathCase
        => /\ gds.res.log # <<>>
           /\ gds.res.log[1].stage = ExpectedStage
           /\ (FlagGiven /\ ~NodeFlag /\ ~AppFlag)
                 => ~LogHas("nodeinfo") /\ ~LogHas("appinfo")
           /\ (NodeFlag /\ AppFlag) => ~LogHas("appinfo")

\* The hostname was asked for rank UNDEF with PMIX_NODE_INFO set false, on a
\* job whose node list holds the caller's node: the rank scan gave the value
\* of the rank that holds the key, and the node list was not consulted.
C27_Witness ==
    /\ PathCase
    /\ QRank = PMIX_RANK_UNDEF
    /\ QKey = PMIX_HOSTNAME
    /\ QQual = <<Qualifier(PMIX_NODE_INFO, FALSE, 0, "")>>
    /\ QJob.nodeinfo = <<NodeA>>
    /\ gds.res = Result(PMIX_SUCCESS, <<Kval(PMIX_HOSTNAME, StringValue("h2"), "copy")>>,
                        [n \in 1..MaxRanks |-> Consulted("hash", n - 1)])


\* A fetch of every key that takes the node-info path: the rank is UNDEF and
\* PMIX_NODE_INFO is set.
NodeSweep == PathCase /\ NodeRequested /\ QKey = NULL

\* The node the first PMIX_NODEID or PMIX_HOSTNAME qualifier names, as a
\* sequence of at most one.
NamedNode ==
    LET q == NodeQualifier(QQual)
    IN IF q = <<>> THEN <<>>
       ELSE IF q[1].key = PMIX_NODEID THEN NodeById(QJob.nodeinfo, q[1].num)
       ELSE pmix_gds_shmem_get_nodeinfo_by_nodename(QJob.nodeinfo, q[1].str)

\* The composite of a node under key: its hostname and node id when set, then
\* a copy of each of its attributes.
Composite(key, node) ==
    Kval(key,
         ArrayValue((IF node.hostname # NULL
                     THEN <<Kval(PMIX_HOSTNAME, StringValue(node.hostname), "copy")>>
                     ELSE <<>>)
                    \o (IF node.nodeid # NodeidUnset
                        THEN <<Kval(PMIX_NODEID, NumberValue(node.nodeid), "copy")>>
                        ELSE <<>>)
                    \o [n \in DOMAIN node.info |-> [node.info[n] EXCEPT !.where = "copy"]]),
         "copy")

\* C28: a fetch of every key on the node-info path for a node a qualifier
\* names gives success and exactly one composite of that node, under the
\* node's hostname for a protocol version below 3.1 and under the
\* node-info-array key from 3.1 on.
C28_OneCompositeForNamedNode ==
    (NodeSweep /\ NamedNode # <<>>)
        => gds.res = Result(PMIX_SUCCESS,
                            <<Composite(IF Before31(QJob) THEN NamedNode[1].hostname
                                        ELSE PMIX_NODE_INFO_ARRAY, NamedNode[1])>>,
                            NodeOnly)

\* The composites of the nodes of a list that have a key to go under.
RECURSIVE Composites(_, _)
Composites(nodes, old) ==
    IF nodes = <<>> THEN <<>>
    ELSE (IF old /\ Head(nodes).hostname = NULL THEN <<>>
          ELSE <<Composite(IF old THEN Head(nodes).hostname ELSE PMIX_NODE_INFO_ARRAY,
                           Head(nodes))>>)
         \o Composites(Tail(nodes), old)

\* C29 as stated: a fetch of every key on the node-info path with no
\* PMIX_NODEID or PMIX_HOSTNAME qualifier appends as many composites as the
\* job's node list has nodes, whatever the protocol version.
C29_OneCompositePerNode ==
    (NodeSweep /\ NodeQualifier(QQual) = <<>>)
        => /\ gds.res.rc = PMIX_SUCCESS
           /\ Len(gds.res.kvs) = Len(QJob.nodeinfo)

\* C29 amended: when the path returns, it returns success with one composite
\* per node of the job's node list, in list order, except that for a protocol
\* version below 3.1 the nodes without a hostname are left out; it does not
\* return when assertions are compiled in and there is a composite to emit.
C29_OneCompositePerKeyedNode ==
    (NodeSweep /\ NodeQualifier(QQual) = <<>>)
        => LET want == Composites(QJob.nodeinfo, Before31(QJob))
           IN IF gds.asserts /\ want # <<>>
              THEN gds.res = Result(ABORTED, <<>>, NodeOnly)
              ELSE gds.res = Result(PMIX_SUCCESS, want, NodeOnly)

\* Every key was asked of the node list <<NodeB, NodeA>> of a job of protocol
\* 3.0 with no node qualifier: the one composite is that of NodeA, under its
\* hostname.
C29_Witness ==
    /\ NodeSweep
    /\ QQual = <<Qualifier(PMIX_NODE_INFO, TRUE, 0, "")>>
    /\ Before31(QJob)
    /\ QJob.nodeinfo = <<NodeB, NodeA>>
    /\ gds.res.rc = PMIX_SUCCESS
    /\ Len(gds.res.kvs) = 1
    /\ gds.res.kvs[1].key = "h1"
    /\ Len(gds.res.kvs[1].value.darray) = 5

\* The node the node-info path works on for a key: the one a qualifier
\* names, else the caller's own.
SelectedNode == IF NodeQualifier(QQual) # <<>> THEN NamedNode ELSE OwnNode

\* The places of the key asked for in the selected node's attribute list.
KeyPlaces == {n \in DOMAIN SelectedNode[1].info : SelectedNode[1].info[n].key = QKey}
FirstPlace == CHOOSE n \in KeyPlaces : \A m \in KeyPlaces : n <= m

\* C30: on the node-info path with a key, the attribute list of the selected
\* node is scanned for the key: the first attribute with exactly that key is
\* appended as the one copy, with success; when the node has no attribute
\* with the key the path reports not-found and appends nothing (for the
\* wildcard rank the generic search follows).
C30_NodeKeyScanFirstMatch ==
    (PathCase /\ NodeRequested /\ QKey # NULL /\ SelectedNode # <<>>)
        => IF KeyPlaces # {}
           THEN gds.res = Result(PMIX_SUCCESS,
                                 <<[SelectedNode[1].info[FirstPlace] EXCEPT !.where = "copy"]>>,
                                 NodeOnly)
           ELSE IF QRank = PMIX_RANK_UNDEF
           THEN gds.res = Result(PMIX_ERR_NOT_FOUND, <<>>, NodeOnly)
           ELSE SearchResult(NodeOnly)

\* k1 was asked of the node with id 1, which holds k1 twice: the first of the
\* two values came back, alone.
C30_Witness ==
    /\ PathCase
    /\ QRank = PMIX_RANK_UNDEF
    /\ QKey = "k1"
    /\ QQual = <<Qualifier(PMIX_NODE_INFO, TRUE, 0, ""), Qualifier(PMIX_NODEID, FALSE, 1, "")>>
    /\ SelectedNode = <<NodeA>>
    /\ Cardinality(KeyPlaces) = 2
    /\ gds.res = Result(PMIX_SUCCESS, <<Kval("k1", NumberValue(21), "copy")>>, NodeOnly)

\* A fetch of a key that takes the app-info path, and the application it is
\* about: the one the first PMIX_APPNUM qualifier numbers, else the caller's
\* own; a sequence of at most one.
AppKeyCase == PathCase /\ AppRequested /\ QKey # NULL
SelectedApp ==
    LET q == AppQualifier(QQual)
    IN AppByNum(QJob.apps, IF q # <<>> THEN q[1].num ELSE Me.appnum)

\* C31: the app-info path for a key works on the application the PMIX_APPNUM
\* qualifier numbers, else on the caller's own, and reports not-found when
\* the job has no such application; with no node qualifier, a key the
\* application's attribute list holds comes back as one copy of the
\* application's attribute, with success.
C31_AppKeyFromAppList ==
    AppKeyCase
        => IF SelectedApp = <<>>
           THEN IF QRank = PMIX_RANK_UNDEF
                THEN gds.res = Result(PMIX_ERR_NOT_FOUND, <<>>, AppOnly)
                ELSE SearchResult(AppOnly)
           ELSE (NodeQualifier(QQual) = <<>> /\ FirstKey(SelectedApp[1].appinfo, QKey) # <<>>)
                   => gds.res = Result(PMIX_SUCCESS,
                                       <<[FirstKey(SelectedApp[1].appinfo, QKey)[1]
                                             EXCEPT !.where = "copy"]>>,
                                       AppOnly)

\* The place of a store in the order of the resolution: the node-info or
\* app-info path, the generic search of the local tables and lists, the
\* fallback store.
StageOrder(stage) ==
    IF stage \in {"nodeinfo", "appinfo"} THEN 1
    ELSE IF stage \in {"hash", "jobinfo"} THEN 2
    ELSE 3

\* C36: one fetch asks the fallback store at most once; the stores are
\* consulted in the order node-info or app-info path, generic search,
\* fallback store; and the fallback store is asked only when no local stage
\* gave a result, its answer being the whole result of the fetch.
C36_FallbackOnceAndLast ==
    Asked
        => /\ Cardinality({n \in DOMAIN gds.res.log : gds.res.log[n].stage = "ffgds"}) <= 1
           /\ \A n, m \in DOMAIN gds.res.log :
                 n < m => StageOrder(gds.res.log[n].stage) <= StageOrder(gds.res.log[m].stage)
           /\ LogHas("ffgds") => gds.res.kvs = gds.ff.kvs /\ gds.res.rc = gds.ff.rc

\* The qualifier that names the node: the first with key PMIX_NODEID or
\* PMIX_HOSTNAME; a sequence of at most one.
NodeNaming ==
    LET at == {n \in DOMAIN QQual : QQual[n].key \in {PMIX_NODEID, PMIX_HOSTNAME}}
    IN IF at = {} THEN <<>> ELSE <<QQual[CHOOSE n \in at : \A m \in at : n <= m]>>

\* The places in nodes of the nodes the request is about: those with the set
\* node id or the hostname the naming qualifier gives, and with no such
\* qualifier those of the local host.
TargetPlaces(nodes) ==
    {n \in DOMAIN nodes :
        IF NodeNaming = <<>> THEN nodes[n].hostname = Me.hostname
        ELSE IF NodeNaming[1].key = PMIX_NODEID
        THEN nodes[n].nodeid # NodeidUnset /\ nodes[n].nodeid = NodeNaming[1].num
        ELSE nodes[n].hostname = NodeNaming[1].str}
Target(nodes) == nodes[CHOOSE n \in TargetPlaces(nodes) : \A m \in TargetPlaces(nodes) : n <= m]

\* The status of the node-info path when no node matches.
NoNodeStatus ==
    IF NodeNaming = <<>> THEN PMIX_ERR_DATA_VALUE_NOT_FOUND ELSE PMIX_ERR_NOT_FOUND

\* The copy of the first attribute of list under the key asked for, if any.
KeyCopy(list) ==
    LET at == {n \in DOMAIN list : list[n].key = QKey}
    IN IF at = {} THEN <<>>
       ELSE <<[list[CHOOSE n \in at : \A m \in at : n <= m] EXCEPT !.where = "copy"]>>

\* C37: the node-info path works on the node the first PMIX_NODEID or
\* PMIX_HOSTNAME qualifier names, a node id matching set ids only, and for a
\* key with no such qualifier on the node of the local host.  With no node
\* matching it gives data-value-not-found when the node was assumed and
\* not-found when a qualifier named it.  On the app-info path only the
\* former is followed by the scan of the application's attributes; the
\* latter is the result of the path.
C37_NodeChoiceAndMissStatus ==
    /\ (PathCase /\ NodeRequested /\ QRank = PMIX_RANK_UNDEF
          /\ (QKey # NULL \/ NodeNaming # <<>>))
          => IF TargetPlaces(QJob.nodeinfo) = {}
             THEN gds.res = Result(NoNodeStatus, <<>>, NodeOnly)
             ELSE QKey # NULL
                     => gds.res = Result(IF KeyCopy(Target(QJob.nodeinfo).info) = <<>>
                                         THEN PMIX_ERR_NOT_FOUND ELSE PMIX_SUCCESS,
                                         KeyCopy(Target(QJob.nodeinfo).info), NodeOnly)
    /\ (AppKeyCase /\ QRank = PMIX_RANK_UNDEF /\ SelectedApp # <<>>
          /\ TargetPlaces(SelectedApp[1].nodeinfo) = {})
          => IF NodeNaming = <<>>
             THEN gds.res = Result(IF KeyCopy(SelectedApp[1].appinfo) = <<>>
                                   THEN PMIX_ERR_NOT_FOUND ELSE PMIX_SUCCESS,
                                   KeyCopy(SelectedApp[1].appinfo), AppOnly)
             ELSE gds.res = Result(PMIX_ERR_NOT_FOUND, <<>>, AppOnly)

\* A hostname no node has stands in front of the id of a node that holds the
\* key: the path answered with the hard not-found, for the hostname.
C37_Witness ==
    /\ PathCase /\ NodeRequested
    /\ QRank = PMIX_RANK_UNDEF
    /\ QKey = PMIX_HOSTNAME
    /\ QQual = <<Qualifier(PMIX_HOSTNAME, FALSE, 0, "h9"), Qualifier(PMIX_NODEID, FALSE, 1, "")>>
    /\ QJob.nodeinfo = <<NodeB, NodeA>>
    /\ gds.res = Result(PMIX_ERR_NOT_FOUND, <<>>, NodeOnly)

\* A fetch of every key that takes the app-info path (the rank is UNDEF).
AppSweep == PathCase /\ AppRequested /\ QKey = NULL

\* A copy of each attribute of list, in order.
Copies(list) == [n \in DOMAIN list |-> [list[n] EXCEPT !.where = "copy"]]

\* The composite of an application: its number, then a copy of each of its
\* attributes.
AppComposite(app) ==
    Kval(PMIX_APP_INFO_ARRAY,
         ArrayValue(<<Kval(PMIX_APPNUM, NumberValue(app.appnum), "copy")>>
                    \o Copies(app.appinfo)),
         "copy")

\* C38: a fetch of every key on the app-info path gives, with no PMIX_APPNUM
\* qualifier, one composite per application of the job in list order, and
\* with a PMIX_APPNUM qualifier that numbers an application of the job and no
\* node qualifier, a copy of every attribute of that application.
C38_AppSweepResults ==
    AppSweep
        => IF AppQualifier(QQual) = <<>>
           THEN gds.res = Result(PMIX_SUCCESS,
                                 [n \in DOMAIN QJob.apps |-> AppComposite(QJob.apps[n])],
                                 AppOnly)
           ELSE (SelectedApp # <<>> /\ NodeNaming = <<>>)
                   => gds.res = Result(PMIX_SUCCESS, Copies(SelectedApp[1].appinfo), AppOnly)

----------------------------------------------------------------------------
(* Properties of pmix_os_dirpath_destroy (specification SpecDestroy) *)

\* The removals the call made of entries below the directory given.
EntryRemovals ==
    {j \in DOMAIN dir.log : dir.log[j].op \in {"unlink", "rmdir"} /\ dir.log[j].path # <<>>}

\* C26: with a callback given, the callback has run for every file or
\* directory before the call removes it, and nothing for which the callback
\* returned non-zero is removed.
C26_NonZeroCallbackKeepsEntry ==
    dir.cb.given =>
        \A j \in EntryRemovals :
            /\ \E i \in 1..(j - 1) :
                  dir.log[i].op = "cbfunc" /\ dir.log[i].path = dir.log[j].path
            /\ \A i \in 1..(j - 1) :
                  (dir.log[i].op = "cbfunc" /\ dir.log[i].path = dir.log[j].path)
                      => ~dir.log[i].ret

\* The call has returned to its caller.
DestroyDone == dir.called /\ dir.stack = <<>>
LogHasOp(op) == \E i \in DOMAIN dir.log : dir.log[i].op = op

\* C39: a call with recursive false that found a subdirectory went on with
\* the other entries: when it has returned, no regular file is left in the
\* directory but those the callback kept, the status is an error, and the
\* directory itself is gone only if nothing was left in it; at no time is a
\* subdirectory entered, removed, or passed to the callback.
C39_NonRecursiveSkipsDirectories ==
    /\ (DestroyDone /\ ~dir.recursive /\ LogHasOp("skipdir"))
          => /\ \A n \in Names :
                   dir.fs[<<n>>] = "file" => dir.cb.given /\ n \notin dir.cb.allow
             /\ dir.ret = PMIX_ERROR
             /\ Children(dir.fs, <<>>) # {} => dir.fs[<<>>] = "dir"
    /\ ~dir.recursive
          => /\ Len(dir.stack) <= 1
             /\ \A i \in DOMAIN dir.log :
                   dir.log[i].op \in {"cbfunc", "unlink", "rmdir"}
                      => /\ Len(dir.log[i].path) <= 1
                         /\ dir.fs[dir.log[i].path] # "dir"
                         /\ \A j \in DOMAIN dir.log :
                               dir.log[j].op = "skipdir" => dir.log[j].path # dir.log[i].path

\* A subdirectory was found and left alone, a file was unlinked after that,
\* and the call returned an error with the directory still there.
C39_Witness ==
    /\ DestroyDone /\ ~dir.recursive
    /\ dir.ret = PMIX_ERROR
    /\ dir.fs[<<>>] = "dir"
    /\ \E i, j \in DOMAIN dir.log :
          /\ i < j
          /\ dir.log[i].op = "skipdir"
          /\ dir.log[j].op = "unlink"
          /\ dir.fs[dir.log[i].path] = "dir"

\* C40: an entry another process removes between its enumeration and its
\* removal by the call is passed over: the step that finds it gone (the
\* stat, the unlink, or the return of the descent into a directory that is
\* gone) goes on with the next entry of the same directory and leaves the
\* status of the call as it was.
C40_VanishedEntrySkipped ==
    [][/\ ((At("stat") \/ (At("remove") /\ ~Top.is_dir))
             /\ dir.fs[Append(Top.path, Top.cur)] = "none" /\ dir'.stack # dir.stack)
          => dir'.stack = SetTop([Top EXCEPT !.pc = "readdir"])
       /\ (At("cleanup") /\ Len(dir.stack) > 1 /\ dir.fs[Top.path] = "none"
             /\ Top.exit_status = PMIX_ERR_NOT_FOUND /\ dir'.stack # dir.stack)
          => dir'.stack = SubSeq(dir.stack, 1, Len(dir.stack) - 2)
                          \o <<[dir.stack[Len(dir.stack) - 1] EXCEPT !.pc = "readdir"]>>]_vars

====
